---- MODULE Spec2Model ----
(***************************************************************************)
(* A model of the lesson-plan bot of src/app.py: the template binder       *)
(* (fill_template_and_send_bracketed and its helpers) and the webhook      *)
(* conversation controller.                                                *)
(*                                                                         *)
(* Text.  A Python str is modelled as a sequence of chunks; a chunk is a   *)
(* literal piece of the string ("Subject", ":", " ", "[").  The chunks are *)
(* chosen so that every character the code looks for (":", "[", "]",       *)
(* a backslash, white space) is a chunk of its own and every label phrase  *)
(* is a sequence of whole chunks: the substring, split and strip           *)
(* operations of the code then act on chunk boundaries.                    *)
(***************************************************************************)
EXTENDS Naturals, Sequences, FiniteSets, TLC

VARIABLES
    \* ---- the binder: one call of fill_template_and_send_bracketed ----
    bpc,        \* position in the call
    template,   \* the document as loaded from template_path
    doc,        \* the document object being rewritten
    mapping,    \* the call's argument: canonical key -> value
    key_idx,    \* index of the next key of label_variants to process
    consumed,   \* keys whose label pass reported a match (history)
    written,    \* values popped into bracket tokens by the second pass (history)
    bound,      \* the text of the document that was saved (history)
    bout,       \* outbound actions of the call
    \* ---- the webhook ----
    SESS,           \* chat_id -> [state, tmp, template_path]
    RUNTIME_TARGET, \* {} or {"target": id}
    last,           \* the update handled last (history)
    out,            \* the Telegram calls the last update caused, in order
    run,            \* the pipeline run of the last update, if any (history)
    traffic,        \* the kind of updates this run carries (see Inbox)
    \* ---- calls of the extraction helpers on their own ----
    call,           \* the last call: its arguments and what it returned
    \* ---- two updates of one chat handled at the same time ----
    thread,         \* handler -> its position and local variables
    began           \* the chat and its session before the two (history)

bvars == <<bpc, template, doc, mapping, key_idx, consumed, written, bound, bout>>

cvars == <<SESS, RUNTIME_TARGET, last, out, run, traffic>>

ovars == <<call, thread, began>>

vars == <<bvars, cvars, ovars>>

-----------------------------------------------------------------------------
(* Python values *)

\* None, kept apart from every str (no input holds this chunk).
None == <<"<None>">>

\* the bullet character U+2022 of src/app.py:154 (one chunk)
BULLET == "<bullet>"

\* a ruled line of a worksheet: 57 underscores (one chunk)
Rule == "_________________________________________________________"

\* a stretch of running text without white space or punctuation, PageLen
\* characters long (one chunk)
Page == "<page>"

PageLen == 10000

\* n ruled lines on end
Rules(n) == [i \in 1..n |-> Rule]

\* x or "" (src/app.py:303)
OrEmpty(x) == IF x = None THEN <<>> ELSE x

\* the chunks of the model with an upper-case letter, and their lower case
LowerTable ==
    "Lesson" :> "lesson" @@ "Title" :> "title" @@ "Subject" :> "subject" @@
    "Teacher" :> "teacher" @@ "Grade" :> "grade" @@ "Date" :> "date" @@
    "Training" :> "training" @@ "Photosynthesis" :> "photosynthesis" @@
    "Biology" :> "biology" @@ "Art" :> "art" @@ "Design" :> "design" @@
    "TBD" :> "tbd" @@ "Learn" :> "learn" @@ "Plants" :> "plants" @@ "Q1" :> "q1" @@
    "Q2" :> "q2" @@ "Q3" :> "q3" @@ "Q4" :> "q4" @@ "Students" :> "students" @@
    "Homework" :> "homework" @@ "Note" :> "note" @@ "Resource" :> "resource" @@
    "Conclusion" :> "conclusion" @@ "Explain" :> "explain" @@ "What" :> "what" @@
    "List" :> "list" @@ "Yes" :> "yes" @@ "Y" :> "y" @@ "/Hi_Rise" :> "/hi_rise" @@
    "Upload" :> "upload" @@ "Paste" :> "paste" @@ "Text" :> "text" @@ "PDF" :> "pdf" @@
    ".PDF" :> ".pdf" @@ ".DOCX" :> ".docx" @@ "Ask" :> "ask" @@ "Bot" :> "bot" @@
    "Find" :> "find" @@ "Send" :> "send" @@ "Message" :> "message" @@
    "Target" :> "target" @@ "Show" :> "show" @@ "Set" :> "set" @@
    "Template" :> "template" @@ "Path" :> "path" @@ "Exit" :> "exit" @@
    "Admin" :> "admin" @@ "Hi" :> "hi" @@ "Pasted" :> "pasted" @@ "None" :> "none" @@
    "Materials" :> "materials" @@ "Assignment" :> "assignment" @@ "Today" :> "today" @@
    "The" :> "the" @@ "Chapter" :> "chapter" @@ "Plan" :> "plan" @@ "Name" :> "name"

\* str.lower() on one chunk
Lower(c) == IF c \in DOMAIN LowerTable THEN LowerTable[c] ELSE c

\* str.lower()
LowerText(t) == [i \in 1..Len(t) |-> Lower(t[i])]

\* white space as str.strip()/rstrip() see it
IsSpace(c) == c \in {" ", "\n", "\t"}

\* needle in hay (substring); needle is never empty here
Contains(hay, needle) ==
    \E i \in 1..(Len(hay) + 1 - Len(needle)) :
        SubSeq(hay, i, i + Len(needle) - 1) = needle

\* index of the first chunk equal to c at or after position from, 0 if none
RECURSIVE IndexFrom(_, _, _)
IndexFrom(t, c, from) ==
    IF from > Len(t) THEN 0
    ELSE IF t[from] = c THEN from
    ELSE IndexFrom(t, c, from + 1)

\* str.rstrip()
RECURSIVE RStrip(_)
RStrip(t) ==
    IF t # <<>> /\ IsSpace(t[Len(t)]) THEN RStrip(SubSeq(t, 1, Len(t) - 1)) ELSE t

\* str.lstrip()
RECURSIVE LStrip(_)
LStrip(t) == IF t # <<>> /\ IsSpace(Head(t)) THEN LStrip(Tail(t)) ELSE t

\* str.strip()
Strip(t) == RStrip(LStrip(t))

\* the number of characters of a chunk
ChunkLen(c) == IF c = BULLET THEN 1 ELSE IF c = Page THEN PageLen ELSE Len(c)

\* len(t)
RECURSIVE LenFrom(_, _)
LenFrom(t, i) == IF i > Len(t) THEN 0 ELSE ChunkLen(t[i]) + LenFrom(t, i + 1)

TextLen(t) == LenFrom(t, 1)

\* t.startswith(p), t.endswith(s)
StartsWith(t, p) == Len(t) >= Len(p) /\ SubSeq(t, 1, Len(p)) = p

EndsWith(t, s) == Len(t) >= Len(s) /\ SubSeq(t, Len(t) + 1 - Len(s), Len(t)) = s

\* t.split(sep) for a one-chunk separator: the list of pieces
RECURSIVE Split(_, _)
SplitAt(t, sep, i) ==
    IF i = 0 THEN <<t>>
    ELSE <<SubSeq(t, 1, i - 1)>> \o Split(SubSeq(t, i + 1, Len(t)), sep)

Split(t, sep) == SplitAt(t, sep, IndexFrom(t, sep, 1))

\* sep.join(ts)
RECURSIVE Join(_, _)
Join(ts, sep) ==
    IF ts = <<>> THEN <<>>
    ELSE IF Len(ts) = 1 THEN ts[1]
    ELSE ts[1] \o sep \o Join(Tail(ts), sep)

\* [x.strip() for x in ts], [x for x in ts if x], ts[:n]
MapStrip(ts) == [i \in 1..Len(ts) |-> Strip(ts[i])]

NonEmpty(ts) == SelectSeq(ts, LAMBDA x : x # <<>>)

Take(ts, n) == SubSeq(ts, 1, IF Len(ts) < n THEN Len(ts) ELSE n)

\* t[:k]; a chunk the cut falls into is dropped whole (the cuts of the model
\* fall between chunks)
RECURSIVE Truncate(_, _)
Truncate(t, k) ==
    IF t = <<>> \/ ChunkLen(Head(t)) > k THEN <<>>
    ELSE <<Head(t)>> \o Truncate(Tail(t), k - ChunkLen(Head(t)))

\* the position of the first white-space chunk of t, 0 if none
RECURSIVE SpaceFrom(_, _)
SpaceFrom(t, i) ==
    IF i > Len(t) THEN 0 ELSE IF IsSpace(t[i]) THEN i ELSE SpaceFrom(t, i + 1)

\* len(t.split()): the number of words
RECURSIVE WordCount(_)
WordCountAt(t, i) ==
    IF i = 0 THEN 1 ELSE 1 + WordCount(SubSeq(t, i + 1, Len(t)))

WordCount(t) ==
    IF LStrip(t) = <<>> THEN 0 ELSE WordCountAt(LStrip(t), SpaceFrom(LStrip(t), 1))

\* t.split(maxsplit=1): the first word, then the rest without the white
\* space before it
SplitOnceAt(t, i) ==
    IF i = 0 THEN <<t>>
    ELSE IF LStrip(SubSeq(t, i, Len(t))) = <<>> THEN <<SubSeq(t, 1, i - 1)>>
    ELSE <<SubSeq(t, 1, i - 1), LStrip(SubSeq(t, i, Len(t)))>>

SplitOnce(t) ==
    IF LStrip(t) = <<>> THEN <<>> ELSE SplitOnceAt(LStrip(t), SpaceFrom(LStrip(t), 1))

\* t.isdigit()
Digits == {"0", "1", "2", "3", "4", "5", "6", "7", "8", "9"}

IsDigit(t) == t # <<>> /\ \A i \in 1..Len(t) : t[i] \in Digits

\* x or y
Or(x, y) == IF x = None \/ x = <<>> THEN y ELSE x

\* d.get(k, default) on a dict (a function from keys)
\* d.get(k) where d.get(k, default) is meant
GetOrNone(d, k, default) == IF k \in DOMAIN d THEN d[k] ELSE None

Get(d, k, default) == IF k \in DOMAIN d THEN d[k] ELSE default


-----------------------------------------------------------------------------
(* re.sub with a str replacement: the replacement is a template in which a *)
(* backslash starts an escape (sre_parse.parse_template).                  *)

\* what a backslash followed by chunk c means
EscapeClass(c) ==
    CASE c = "\\" -> "backslash"
      [] c = "1" -> "group1"
      [] c \in {" ", ":", "[", "]", "/", BULLET} -> "literal"
      [] c \in {"Design", "Biology", "Training", "Photosynthesis", "Teacher",
                "Subject", "Grade", "Date", "Lesson", "Title", "TBD", "Art"} -> "bad"

\* the text an escape stands for, g1 being group 1 of the match
EscapeText(c, g1) ==
    CASE EscapeClass(c) = "backslash" -> <<"\\">>
      [] EscapeClass(c) = "group1" -> g1
      [] EscapeClass(c) = "literal" -> <<"\\", c>>

Prepend(x, rest) == [err |-> rest.err, text |-> x \o rest.text]

\* the expansion of replacement template v from position i on:
\* [err |-> re.error raised, text |-> expansion]
RECURSIVE ExpandTemplate(_, _, _)
ExpandTemplate(v, i, g1) ==
    IF i > Len(v) THEN [err |-> FALSE, text |-> <<>>]
    ELSE IF v[i] # "\\" THEN Prepend(<<v[i]>>, ExpandTemplate(v, i + 1, g1))
    ELSE IF i = Len(v) THEN [err |-> TRUE, text |-> <<>>]
    ELSE IF EscapeClass(v[i + 1]) = "bad" THEN [err |-> TRUE, text |-> <<>>]
    ELSE Prepend(EscapeText(v[i + 1], g1), ExpandTemplate(v, i + 2, g1))

-----------------------------------------------------------------------------
(* Summarization and heuristics.  sumy says whether the TextRank call of    *)
(* the library succeeds; when it raises the code falls back on the lines.   *)

\* the paragraphs PlaintextParser builds from the stripped lines: blank
\* lines separate them, the lines of one paragraph are joined by a blank
\* (no line of the model's texts is in capitals, which would be a heading)
RECURSIVE Paragraphs(_, _)
Paragraphs(lines, cur) ==
    IF lines = <<>> THEN (IF cur = <<>> THEN <<>> ELSE <<cur>>)
    ELSE IF Head(lines) = <<>>
    THEN (IF cur = <<>> THEN <<>> ELSE <<cur>>) \o Paragraphs(Tail(lines), <<>>)
    ELSE Paragraphs(Tail(lines),
                    IF cur = <<>> THEN Head(lines) ELSE cur \o <<" ">> \o Head(lines))

\* the position of the first sentence end of t at or after i (a full stop,
\* question or exclamation mark followed by white space), 0 if none
RECURSIVE SentenceEnd(_, _)
SentenceEnd(t, i) ==
    IF i >= Len(t) THEN 0
    ELSE IF t[i] \in {".", "?", "!"} /\ IsSpace(t[i + 1]) THEN i
    ELSE SentenceEnd(t, i + 1)

\* Tokenizer("english") on one paragraph: its sentences
RECURSIVE SentencesOf(_)
SentencesAt(t, j) ==
    IF j = 0 THEN <<t>>
    ELSE <<SubSeq(t, 1, j)>> \o SentencesOf(LStrip(SubSeq(t, j + 1, Len(t))))

SentencesOf(t) == IF t = <<>> THEN <<>> ELSE SentencesAt(t, SentenceEnd(t, 1))

RECURSIVE AllSentences(_)
AllSentences(pars) ==
    IF pars = <<>> THEN <<>> ELSE SentencesOf(Head(pars)) \o AllSentences(Tail(pars))

\* parser.document.sentences
DocumentSentences(text) == AllSentences(Paragraphs(MapStrip(Split(text, "\n")), <<>>))

\* TextRankSummarizer()(document, count): the count best-ranked sentences in
\* document order; all of them when there are no more than count (no text of
\* the model has more sentences than the smallest count the code asks for)
TextRank(text, count) == Take(DocumentSentences(text), count)

\* src/app.py:141-142
SummaryOfLines(text, sentences_count, lines) ==
    IF lines # <<>> THEN Join(Take(lines, sentences_count), <<"\n">>)
    ELSE Truncate(text, 1000)

summarize_text(text, sentences_count, sumy) ==
    IF text = <<>> THEN <<>>
    ELSE IF sumy THEN Join(TextRank(text, sentences_count), <<"\n">>)
    ELSE SummaryOfLines(text, sentences_count, NonEmpty(MapStrip(Split(text, "\n"))))

\* the keywords of src/app.py:151
Keywords ==
    { <<"able", " ", "to">>, <<"will">>, <<"understand">>, <<"learn">>,
      <<"identify">>, <<"describe">>, <<"students", " ", "will">> }

HasKeyword(s) == \E k \in Keywords : Contains(LowerText(s), k)

\* "\n".join(f"<bullet> {c}" for c in ts)
Bullets(ts) == Join([i \in 1..Len(ts) |-> <<BULLET, " ">> \o ts[i]], <<"\n">>)

Placeholder ==
    <<BULLET, " ", "Students", " ", "will", " ", "be", " ", "able", " ", "to", " ", "...">>

\* src/app.py:155-158
ObjectivesOfSummary(summ) ==
    IF summ # <<>> THEN Bullets(NonEmpty(MapStrip(Split(summ, "\n"))))
    ELSE Placeholder

\* src/app.py:153-158
ObjectivesGiven(text, sumy, candidates) ==
    IF candidates # <<>> THEN Bullets(Take(candidates, 5))
    ELSE ObjectivesOfSummary(summarize_text(text, 5, sumy))

extract_objectives_from_text(text, sumy) ==
    ObjectivesGiven(text, sumy,
        SelectSeq(NonEmpty(MapStrip(Split(OrEmpty(text), "."))), HasKeyword))

\* s.rstrip(".")
RECURSIVE RStripDots(_)
RStripDots(t) ==
    IF t # <<>> /\ t[Len(t)] = "." THEN RStripDots(SubSeq(t, 1, Len(t) - 1)) ELSE t

QuestionLabels == <<"Q1", "Q2", "Q3", "Q4">>

\* one iteration of the loop of src/app.py:171-175 on line i of the summary
QuestionOf(i, s) ==
    IF WordCount(s) < 3 THEN <<>>
    ELSE << <<QuestionLabels[i], ".", " ", "Explain", ":", " ">> \o s \o <<"?">> >>

RECURSIVE Questions(_, _)
Questions(lines, i) ==
    IF i > Len(lines) THEN <<>>
    ELSE QuestionOf(i, RStripDots(Strip(lines[i]))) \o Questions(lines, i + 1)

DefaultQuestions ==
    << <<"Q1", ".", " ", "What", " ", "is", " ", "the", " ", "main", " ", "idea", " ",
         "of", " ", "the", " ", "chapter", "?">>,
       <<"Q2", ".", " ", "List", " ", "two", " ", "key", " ", "points", ".">> >>

QuestionsOrDefault(qs) == Join(IF qs = <<>> THEN DefaultQuestions ELSE qs, <<"\n">>)

generate_assessment_questions(text, sumy) ==
    QuestionsOrDefault(Questions(Take(Split(summarize_text(text, 4, sumy), "\n"), 4), 1))

-----------------------------------------------------------------------------
(* Section extractor: re.search of                                          *)
(*   (names)\s*[:\-\n]\s*(.*?)(\n[A-Z][^\n]{0,80}:|\Z)   with re.I | re.S   *)

\* the last position of the white-space run that starts at i (i - 1 if none)
RECURSIVE SpaceRunEnd(_, _)
SpaceRunEnd(t, i) ==
    IF i <= Len(t) /\ IsSpace(t[i]) THEN SpaceRunEnd(t, i + 1) ELSE i - 1

\* \s*[:\-\n]\s* from position i, the white-space run there ending at b: the
\* position where group 2 starts, 0 when the separator does not match
SeparatorGiven(t, i, b) ==
    IF b < Len(t) /\ t[b + 1] \in {":", "-"} THEN SpaceRunEnd(t, b + 2) + 1
    ELSE IF \E k \in i..b : t[k] = "\n" THEN b + 1
    ELSE 0

Separator(t, i) == SeparatorGiven(t, i, SpaceRunEnd(t, i))

\* chunks that do not begin with a letter
NotLetters ==
    {" ", "\n", "\t", ":", "-", ".", ",", "?", "!", "[", "]", "\\", "/", "...", BULLET,
     Rule}
    \cup Digits

\* \n[A-Z][^\n]{0,80}: at position q; under re.I the class [A-Z] takes a
\* letter of either case
HeadingAt(t, q) ==
    /\ q < Len(t)
    /\ t[q] = "\n"
    /\ t[q + 1] \notin NotLetters
    /\ \E c \in (q + 2)..Len(t) :
          /\ t[c] = ":"
          /\ \A k \in (q + 1)..c : t[k] # "\n"
          /\ TextLen(SubSeq(t, q + 1, c - 1)) <= 81

\* where the lazy group 2 that starts at s ends: the position before the first
\* heading line, else the end of the text
RECURSIVE ContentEnd(_, _)
ContentEnd(t, q) ==
    IF q > Len(t) THEN Len(t)
    ELSE IF HeadingAt(t, q) THEN q - 1
    ELSE ContentEnd(t, q + 1)

\* the alternative of names that matches at position p (tried in order from
\* alternative a) together with the separator: where group 2 starts, 0 if none
RECURSIVE NameAt(_, _, _, _)
NameAtGiven(t, names, p, a, s) ==
    IF s # 0 THEN s ELSE NameAt(t, names, p, a + 1)

NameAt(t, names, p, a) ==
    IF a > Len(names) THEN 0
    ELSE IF p + Len(names[a]) - 1 <= Len(t)
            /\ LowerText(SubSeq(t, p, p + Len(names[a]) - 1)) = names[a]
    THEN NameAtGiven(t, names, p, a, Separator(t, p + Len(names[a])))
    ELSE NameAt(t, names, p, a + 1)

\* the leftmost match from position p on: where group 2 starts, 0 if no match
RECURSIVE SearchFrom(_, _, _)
SearchGiven(t, names, p, s) ==
    IF s # 0 THEN s ELSE SearchFrom(t, names, p + 1)

SearchFrom(t, names, p) ==
    IF p > Len(t) THEN 0 ELSE SearchGiven(t, names, p, NameAt(t, names, p, 1))

\* m.group(2).strip()[:window_chars]
SectionGiven(t, s) ==
    IF s = 0 THEN <<>>
    ELSE Truncate(Strip(SubSeq(t, s, ContentEnd(t, s))), 800)

extract_section(text, names) ==
    IF text = <<>> THEN <<>> ELSE SectionGiven(text, SearchFrom(text, names, 1))

\* the alternations the handlers pass (src/app.py:546-550)
ResourceNames == << <<"resource">>, <<"resource", "s">>, <<"materials">> >>

HomeworkNames == << <<"homework">>, <<"extension", " ", "activity">>, <<"assignment">> >>

ConclusionNames == << <<"conclusion">>, <<"summary">>, <<"summing", " ", "up">> >>

NoteNames ==
    << <<"note", " ", "for", " ", "teacher">>, <<"teacher", " ", "note">>, <<"note", "s">> >>


-----------------------------------------------------------------------------
(* DOCX replacement helpers.  The outcome of a call on a paragraph is       *)
(* [hit |-> the value returned, text |-> paragraph.text afterwards,         *)
(*  err |-> re.error raised]; an exception leaves the paragraph untouched.  *)

\* position of the first "]" after the "[" at i (0 if i = 0 or there is none)
ClosingAfter(ptext, i) == IF i = 0 THEN 0 ELSE IndexFrom(ptext, "]", i + 1)

\* re.search(r'\[([^\]]*)\]', ptext): <<start, end>> of the match, <<>> if none
MatchSpan(i, j) == IF i = 0 \/ j = 0 THEN <<>> ELSE <<i, j>>

OpeningSpan(ptext, i) == MatchSpan(i, ClosingAfter(ptext, i))

bracket_match(ptext) == OpeningSpan(ptext, IndexFrom(ptext, "[", 1))

\* src/app.py:212-214, e being the expansion of the replacement
SubstituteMatch(ptext, m, e) ==
    IF e.err THEN [hit |-> FALSE, text |-> ptext, err |-> TRUE]
    ELSE [hit |-> TRUE,
          text |-> SubSeq(ptext, 1, m[1] - 1) \o e.text
                   \o SubSeq(ptext, m[2] + 1, Len(ptext)),
          err |-> FALSE]

\* src/app.py:216-224, c being the position of the first colon (0 if none)
ReplaceAfterColon(ptext, replacement, c) ==
    IF c # 0
    THEN [hit |-> TRUE,
          text |-> RStrip(SubSeq(ptext, 1, c - 1)) \o <<":", " ">> \o replacement,
          err |-> FALSE]
    ELSE [hit |-> TRUE, text |-> replacement, err |-> FALSE]

\* src/app.py:210-224, m being bracket_match
RewriteParagraph(ptext, replacement, m) ==
    IF m # <<>>
    THEN SubstituteMatch(ptext, m,
             ExpandTemplate(replacement, 1, SubSeq(ptext, m[1] + 1, m[2] - 1)))
    ELSE ReplaceAfterColon(ptext, replacement, IndexFrom(ptext, ":", 1))

_replace_in_paragraph_by_label(ptext, label, replacement) ==
    IF ~Contains(LowerText(ptext), LowerText(label))
    THEN [hit |-> FALSE, text |-> ptext, err |-> FALSE]
    ELSE RewriteParagraph(ptext, replacement, bracket_match(ptext))

OrDone(done, rest) == [rest EXCEPT !.done = done \/ rest.done]

\* the loop "for p in ...: if _replace_in_paragraph_by_label(p, ...): done = True"
\* from paragraph i on: [done, pars, err]; an exception leaves the loop with
\* the paragraphs rewritten so far
RECURSIVE ReplaceEvery(_, _, _, _)
ReplaceEveryGiven(pars, i, label, replacement, r) ==
    IF r.err THEN [done |-> FALSE, pars |-> pars, err |-> TRUE]
    ELSE OrDone(r.hit, ReplaceEvery([pars EXCEPT ![i] = r.text], i + 1, label,
                                    replacement))

ReplaceEvery(pars, i, label, replacement) ==
    IF i > Len(pars) THEN [done |-> FALSE, pars |-> pars, err |-> FALSE]
    ELSE ReplaceEveryGiven(pars, i, label, replacement,
             _replace_in_paragraph_by_label(pars[i], label, replacement))

\* a table is the sequence of its cells' paragraphs in rows/cells/paragraphs order
_replace_in_table(table, label, replacement) ==
    ReplaceEvery(table, 1, label, replacement)

\* the loop "for t in tables: if _replace_in_table(t, ...): done = True" from
\* table i on: [done, tables, err]; a table whose call raises does not count
RECURSIVE ReplaceEveryTable(_, _, _, _)
ReplaceEveryTableGiven(tables, i, label, replacement, r) ==
    IF r.err
    THEN [done |-> FALSE, tables |-> [tables EXCEPT ![i] = r.pars], err |-> TRUE]
    ELSE OrDone(r.done, ReplaceEveryTable([tables EXCEPT ![i] = r.pars], i + 1,
                                          label, replacement))

ReplaceEveryTable(tables, i, label, replacement) ==
    IF i > Len(tables) THEN [done |-> FALSE, tables |-> tables, err |-> FALSE]
    ELSE ReplaceEveryTableGiven(tables, i, label, replacement,
             _replace_in_table(tables[i], label, replacement))

\* one iteration of "for section in doc.sections", a step at a time: s is
\* [done, sec, err] so far; a step after an exception does nothing
HeaderParagraphs(s, label, replacement, r) ==
    [done |-> r.done, sec |-> [s.sec EXCEPT !.hdr_p = r.pars], err |-> r.err]

HeaderTables(s, label, replacement, r) ==
    [done |-> s.done \/ r.done, sec |-> [s.sec EXCEPT !.hdr_t = r.tables],
     err |-> r.err]

FooterParagraphs(s, label, replacement, r) ==
    [done |-> s.done \/ r.done, sec |-> [s.sec EXCEPT !.ftr_p = r.pars],
     err |-> r.err]

FooterTables(s, label, replacement, r) ==
    [done |-> s.done \/ r.done, sec |-> [s.sec EXCEPT !.ftr_t = r.tables],
     err |-> r.err]

SectionStep4(s, label, replacement) ==
    IF s.err THEN s
    ELSE FooterTables(s, label, replacement,
                      ReplaceEveryTable(s.sec.ftr_t, 1, label, replacement))

SectionStep3(s, label, replacement) ==
    IF s.err THEN s
    ELSE SectionStep4(FooterParagraphs(s, label, replacement,
                          ReplaceEvery(s.sec.ftr_p, 1, label, replacement)),
                      label, replacement)

SectionStep2(s, label, replacement) ==
    IF s.err THEN s
    ELSE SectionStep3(HeaderTables(s, label, replacement,
                          ReplaceEveryTable(s.sec.hdr_t, 1, label, replacement)),
                      label, replacement)

ReplaceInSection(sec, label, replacement) ==
    SectionStep2(HeaderParagraphs([done |-> FALSE, sec |-> sec, err |-> FALSE],
                                  label, replacement,
                                  ReplaceEvery(sec.hdr_p, 1, label, replacement)),
                 label, replacement)

\* "for section in doc.sections" from section i on: [done, sections, err]
RECURSIVE ReplaceEverySection(_, _, _, _)
ReplaceEverySectionGiven(sections, i, label, replacement, r) ==
    IF r.err
    THEN [done |-> r.done, sections |-> [sections EXCEPT ![i] = r.sec], err |-> TRUE]
    ELSE OrDone(r.done, ReplaceEverySection([sections EXCEPT ![i] = r.sec], i + 1,
                                            label, replacement))

ReplaceEverySection(sections, i, label, replacement) ==
    IF i > Len(sections) THEN [done |-> FALSE, sections |-> sections, err |-> FALSE]
    ELSE ReplaceEverySectionGiven(sections, i, label, replacement,
             ReplaceInSection(sections[i], label, replacement))

\* try: ... except Exception: pass; return done
Swallow(r) == [done |-> r.done, sections |-> r.sections]

_replace_in_headers_footers(sections, label, replacement) ==
    Swallow(ReplaceEverySection(sections, 1, label, replacement))

\* "for p in doc.paragraphs: if _replace_in_paragraph_by_label(...): return True"
\* from paragraph i on: [done, pars, err]
RECURSIVE ReplaceFirst(_, _, _, _)
ReplaceFirstGiven(pars, i, label, replacement, r) ==
    IF r.err THEN [done |-> FALSE, pars |-> pars, err |-> TRUE]
    ELSE IF r.hit
    THEN [done |-> TRUE, pars |-> [pars EXCEPT ![i] = r.text], err |-> FALSE]
    ELSE ReplaceFirst(pars, i + 1, label, replacement)

ReplaceFirst(pars, i, label, replacement) ==
    IF i > Len(pars) THEN [done |-> FALSE, pars |-> pars, err |-> FALSE]
    ELSE ReplaceFirstGiven(pars, i, label, replacement,
             _replace_in_paragraph_by_label(pars[i], label, replacement))

\* "for t in doc.tables: if _replace_in_table(t, ...): return True" from table
\* i on: [done, tables, err]
RECURSIVE ReplaceFirstTable(_, _, _, _)
ReplaceFirstTableGiven(tables, i, label, replacement, r) ==
    IF r.err \/ r.done
    THEN [done |-> r.done, tables |-> [tables EXCEPT ![i] = r.pars], err |-> r.err]
    ELSE ReplaceFirstTable(tables, i + 1, label, replacement)

ReplaceFirstTable(tables, i, label, replacement) ==
    IF i > Len(tables) THEN [done |-> FALSE, tables |-> tables, err |-> FALSE]
    ELSE ReplaceFirstTableGiven(tables, i, label, replacement,
             _replace_in_table(tables[i], label, replacement))

\* src/app.py:264-266, c being the outcome of _replace_in_headers_footers
DocAfterHeaders(d, c) ==
    [done |-> c.done, doc |-> [d EXCEPT !.sections = c.sections], err |-> FALSE]

\* src/app.py:261-266, b being the outcome of the loop over doc.tables
DocAfterTables(d, label, replacement, b) ==
    IF b.err THEN [done |-> FALSE, doc |-> d, err |-> TRUE]
    ELSE IF b.done
    THEN [done |-> TRUE, doc |-> [d EXCEPT !.tables = b.tables], err |-> FALSE]
    ELSE DocAfterHeaders(d, _replace_in_headers_footers(d.sections, label,
                                                        replacement))

\* src/app.py:258-266, a being the outcome of the loop over doc.paragraphs
DocAfterParagraphs(d, label, replacement, a) ==
    IF a.err THEN [done |-> FALSE, doc |-> d, err |-> TRUE]
    ELSE IF a.done
    THEN [done |-> TRUE, doc |-> [d EXCEPT !.paragraphs = a.pars], err |-> FALSE]
    ELSE DocAfterTables(d, label, replacement,
                        ReplaceFirstTable(d.tables, 1, label, replacement))

\* [done |-> the value returned, doc |-> the document afterwards,
\*  err |-> re.error raised]
_replace_in_doc(d, label, replacement) ==
    DocAfterParagraphs(d, label, replacement,
                       ReplaceFirst(d.paragraphs, 1, label, replacement))

-----------------------------------------------------------------------------
(* fill_template_and_send_bracketed *)

\* the keys of label_variants (and of every mapping the handlers build) in
\* dict order
Keys == <<"lesson_title", "grade", "subject", "teacher_name", "date", "objectives",
          "resources", "outline", "assessment", "homework", "conclusion", "note">>

label_variants ==
    [lesson_title |-> << <<"lesson", " ", "plan", "t">>, <<"lesson", " ", "plan">>,
                         <<"lesson", " ", "title">>, <<"chapter", " ", "name">> >>,
     grade |-> << <<"grade">> >>,
     subject |-> << <<"subject">> >>,
     teacher_name |-> << <<"teacher", " ", "name">>, <<"teacher">> >>,
     date |-> << <<"date">> >>,
     objectives |-> << <<"lesson", " ", "objective", "s">>,
                       <<"lesson", " ", "objective">>, <<"objective", "s">> >>,
     resources |-> << <<"resource", " ", "needed">>, <<"resource", "s">>,
                      <<"materials">> >>,
     outline |-> << <<"lesson", " ", "outline">>, <<"lesson", " ", "outline", ":">> >>,
     assessment |-> << <<"assessment", " ", "and", " ", "evaluation">>,
                       <<"assessment">>, <<"evaluation">> >>,
     homework |-> << <<"homework", "/", "extension", " ", "activity">>, <<"homework">>,
                     <<"extension", " ", "activity">>, <<"assignment">> >>,
     conclusion |-> << <<"conclusion">>, <<"summary">> >>,
     note |-> << <<"note", " ", "for", " ", "teacher">>, <<"note">>,
                 <<"note", "s">> >>]

\* "for var in variants: if _replace_in_doc(doc, var, replacement_text): break"
\* from variant i on
RECURSIVE TryVariants(_, _, _, _)
TryVariantsGiven(variants, i, replacement_text, r) ==
    IF r.err \/ r.done THEN r
    ELSE TryVariants(r.doc, variants, i + 1, replacement_text)

TryVariants(d, variants, i, replacement_text) ==
    IF i > Len(variants) THEN [done |-> FALSE, doc |-> d, err |-> FALSE]
    ELSE TryVariantsGiven(variants, i, replacement_text,
                          _replace_in_doc(d, variants[i], replacement_text))

\* one iteration of "for canonical_key, variants in label_variants.items()"
LabelIteration(d, m, canonical_key) ==
    IF canonical_key \notin DOMAIN m
    THEN [done |-> FALSE, doc |-> d, err |-> FALSE]
    ELSE TryVariants(d, label_variants[canonical_key], 1, OrEmpty(m[canonical_key]))

\* [v for k, v in mapping.items() if v], from key i on
RECURSIVE leftover_values(_, _)
leftover_values(m, i) ==
    IF i > Len(Keys) THEN <<>>
    ELSE IF Keys[i] \in DOMAIN m /\ m[Keys[i]] # None /\ m[Keys[i]] # <<>>
    THEN <<m[Keys[i]]>> \o leftover_values(m, i + 1)
    ELSE leftover_values(m, i + 1)

\* where bracket_pattern = \[([^\]]+)\] matches at position i: the position
\* of the closing bracket, 0 if it does not match there
FallbackMatchEnd(text, i) ==
    IF text[i] = "[" /\ i < Len(text) /\ text[i + 1] # "]"
    THEN IndexFrom(text, "]", i + 2) ELSE 0

PrependText(x, rest) == [text |-> x \o rest.text, left |-> rest.left]

\* bracket_pattern.sub(repl_fn, text) from position i on:
\* [text |-> the result, left |-> leftover_values afterwards]
RECURSIVE BracketSub(_, _, _)
BracketSubGiven(text, i, left, j) ==
    IF j = 0 THEN PrependText(<<text[i]>>, BracketSub(text, i + 1, left))
    ELSE IF left # <<>> THEN PrependText(Head(left), BracketSub(text, j + 1, Tail(left)))
    ELSE PrependText(SubSeq(text, i, j), BracketSub(text, j + 1, left))

BracketSub(text, i, left) ==
    IF i > Len(text) THEN [text |-> <<>>, left |-> left]
    ELSE BracketSubGiven(text, i, left, FallbackMatchEnd(text, i))

\* "for p in doc.paragraphs: ..." of the fallback, from paragraph i on
RECURSIVE FallbackLoop(_, _, _)
FallbackLoopGiven(pars, i, r) ==
    FallbackLoop([pars EXCEPT ![i] = r.text], i + 1, r.left)

FallbackLoop(pars, i, left) ==
    IF i > Len(pars) THEN [pars |-> pars, left |-> left]
    ELSE FallbackLoopGiven(pars, i, BracketSub(pars[i], 1, left))

FallbackGiven(d, all, r) ==
    [doc |-> [d EXCEPT !.paragraphs = r.pars],
     popped |-> SubSeq(all, 1, Len(all) - Len(r.left))]

FallbackWith(d, all) ==
    IF all = <<>> THEN [doc |-> d, popped |-> <<>>]
    ELSE FallbackGiven(d, all, FallbackLoop(d.paragraphs, 1, all))

\* the fallback: [doc |-> the document afterwards, popped |-> the values popped]
Fallback(d, m) == FallbackWith(d, leftover_values(m, 1))

\* the label loop from key i on
RECURSIVE LabelLoop(_, _, _)
LabelLoopGiven(d, m, i, r) ==
    IF r.err THEN [doc |-> d, err |-> TRUE] ELSE LabelLoop(r.doc, m, i + 1)

LabelLoop(d, m, i) ==
    IF i > Len(Keys) THEN [doc |-> d, err |-> FALSE]
    ELSE LabelLoopGiven(d, m, i, LabelIteration(d, m, Keys[i]))

BindGiven(m, a) ==
    IF a.err THEN a ELSE [doc |-> Fallback(a.doc, m).doc, err |-> FALSE]

\* both passes on a loaded document d
Bind(d, m) == BindGiven(m, LabelLoop(d, m, 1))

\* every paragraph text of a document, in search order
RECURSIVE Flatten(_)
Flatten(ss) == IF ss = <<>> THEN <<>> ELSE Head(ss) \o Flatten(Tail(ss))

SectionPars(sec) ==
    sec.hdr_p \o Flatten(sec.hdr_t) \o sec.ftr_p \o Flatten(sec.ftr_t)

AllPars(d) ==
    d.paragraphs \o Flatten(d.tables)
    \o Flatten([i \in 1..Len(d.sections) |-> SectionPars(d.sections[i])])

-----------------------------------------------------------------------------
(* The binder as a state machine: one call of                               *)
(* fill_template_and_send_bracketed, then a second call on the saved        *)
(* document with the same mapping.                                          *)

\* the most paragraphs a template of the model holds
MaxPars == 2

\* the paragraph texts templates are built from
ParPool ==
    { <<"Lesson", " ", "Title", ":">>,
      <<"Subject", ":", " ", "[", "TBD", "]">>,
      <<"Subject">>,
      <<"Title", ":", " ", "[", "TBD", "]">>,
      <<"Grade", " ", ":", " ", "TBD">>,
      <<"Date", ":", " ", "[", "]", " ", "[", "TBD", "]">> }

SeqUpTo(S, n) == UNION {[1..k -> S] : k \in 0..n}

\* a document with body paragraphs, one table (if it has cells) and one
\* section with header paragraphs
MakeDoc(body, cells, hdr) ==
    [paragraphs |-> body,
     tables |-> IF cells = <<>> THEN <<>> ELSE <<cells>>,
     sections |-> << [hdr_p |-> hdr, hdr_t |-> <<>>, ftr_p |-> <<>>, ftr_t |-> <<>>] >>]

\* every document of at most MaxPars paragraphs over the three places
Templates ==
    UNION {UNION {{MakeDoc(b, c, h) :
                      h \in SeqUpTo(ParPool, MaxPars - (Len(b) + Len(c)))} :
                  c \in SeqUpTo(ParPool, MaxPars - Len(b))} :
           b \in SeqUpTo(ParPool, MaxPars)}

NoDoc == MakeDoc(<<>>, <<>>, <<>>)

-----------------------------------------------------------------------------
(* Configuration (src/app.py:35-38) and the webhook's state at start        *)

\* ADMIN_ID (the environment sets it; the model's chat ids are small)
ADMIN_ID == 1

\* TARGET_USER_ID is optional and not set
TARGET_USER_ID_ENV == None

DEFAULT_TEMPLATE_PATH == <<"./Sample Lesson Plan.docx">>

\* no helper called
NoCall ==
    [fn |-> "none", text |-> <<>>, names |-> <<>>, parts |-> <<>>, sumy |-> FALSE,
     result |-> <<>>]

\* the handlers of two updates in flight
Threads == {1, 2}

\* a handler that has no update yet
NoThread ==
    [pc |-> "waiting", msg |-> [none |-> TRUE], state |-> "", tmp |-> <<>>, text |-> <<>>]

\* no two updates in flight
RaceIdle ==
    /\ thread = [h \in Threads |-> NoThread]
    /\ began = [chat |-> 0, sess |-> <<>>, overlap |-> FALSE]

\* no pipeline run
NoRun ==
    [path |-> "none", text |-> <<>>, mapping |-> <<>>, outcome |-> "none", doc |-> NoDoc,
     hits |-> <<>>]

\* SESS = {}, RUNTIME_TARGET = {}, nothing received yet
InitWebhook ==
    /\ SESS = <<>>
    /\ RUNTIME_TARGET = <<>>
    /\ last = [chat |-> 0, msg |-> [none |-> TRUE]]
    /\ out = <<>>
    /\ run = NoRun

-----------------------------------------------------------------------------
(* The binder's inputs and steps                                            *)

\* mappings as the handlers build them (src/app.py:552-565, 598-611,
\* 695-708): teacher_name and date are always empty
Mappings ==
    {[lesson_title |-> t, grade |-> g, subject |-> s, teacher_name |-> <<>>,
      date |-> <<>>, objectives |-> <<BULLET, " ", "Learn">>, resources |-> <<>>,
      outline |-> <<"Plants">>, assessment |-> <<"Q1">>, homework |-> <<>>,
      conclusion |-> <<>>, note |-> <<>>] :
        t \in {<<"Photosynthesis">>, <<"Grade", " ", "6", " ", "Plants">>},
        g \in {<<>>, <<"Grade", " ", "6">>},
        s \in {<<>>, <<"Biology">>, <<"Art", "\\", "Design">>}}

InitBind ==
    /\ bpc = "start"
    /\ template \in Templates
    /\ mapping \in Mappings
    /\ doc = NoDoc
    /\ key_idx = 1
    /\ consumed = {}
    /\ written = <<>>
    /\ bound = NoDoc
    /\ bout = <<>>
    /\ InitWebhook
    /\ traffic = "none"
    /\ call = NoCall
    /\ RaceIdle

\* src/app.py:275-278: the template file does not exist
TemplateMissing ==
    /\ bpc = "start"
    /\ bpc' = "returned"
    /\ bout' = <<"Template not found">>
    /\ UNCHANGED <<template, doc, mapping, key_idx, consumed, written, bound, cvars, ovars>>

\* src/app.py:281: Document(template_path) raises (not a .docx package)
LoadRaises ==
    /\ bpc = "start"
    /\ bpc' = "raised"
    /\ UNCHANGED <<template, doc, mapping, key_idx, consumed, written, bound, bout, cvars, ovars>>

\* src/app.py:281
Load ==
    /\ bpc = "start"
    /\ doc' = template
    /\ bpc' = "label"
    /\ UNCHANGED <<template, mapping, key_idx, consumed, written, bound, bout, cvars, ovars>>

\* src/app.py:300-306, one iteration
LabelStep ==
    /\ bpc = "label"
    /\ \E r \in {LabelIteration(doc, mapping, Keys[key_idx])} :
          IF r.err
          THEN /\ bpc' = "raised"
               /\ UNCHANGED <<doc, key_idx, consumed>>
          ELSE /\ doc' = r.doc
               /\ consumed' = IF r.done THEN consumed \cup {Keys[key_idx]}
                              ELSE consumed
               /\ key_idx' = key_idx + 1
               /\ bpc' = IF key_idx = Len(Keys) THEN "fallback" ELSE "label"
    /\ UNCHANGED <<template, mapping, written, bound, bout, cvars, ovars>>

\* src/app.py:308-317
FallbackStep ==
    /\ bpc = "fallback"
    /\ \E r \in {Fallback(doc, mapping)} :
          /\ doc' = r.doc
          /\ written' = r.popped
    /\ bpc' = "save"
    /\ UNCHANGED <<template, mapping, key_idx, consumed, bound, bout, cvars, ovars>>

\* src/app.py:320-330: save, then sendDocument does or does not raise
SaveAndSend ==
    /\ bpc = "save"
    /\ bound' = doc
    /\ \E sent \in BOOLEAN :
          bout' = IF sent THEN <<"sendDocument", "Lesson plan generated">>
                  ELSE <<"Failed to send generated file">>
    /\ bpc' = "returned"
    /\ UNCHANGED <<template, doc, mapping, key_idx, consumed, written, cvars, ovars>>

\* a second call whose template is the saved document, with the same mapping
BindAgain ==
    /\ bpc = "returned"
    /\ bound # NoDoc
    /\ \E r \in {Bind(bound, mapping)} :
          /\ doc' = r.doc
          /\ bpc' = IF r.err THEN "raised again" ELSE "bound again"
    /\ UNCHANGED <<template, mapping, key_idx, consumed, written, bound, bout, cvars, ovars>>

NextBind ==
    \/ TemplateMissing
    \/ LoadRaises
    \/ Load
    \/ LabelStep
    \/ FallbackStep
    \/ SaveAndSend
    \/ BindAgain

BindSpec == InitBind /\ [][NextBind]_vars

-----------------------------------------------------------------------------
(* Claims about the binder, checked under BindSpec *)

\* the places (indices into AllPars) where two versions of a document differ
Changed(d1, d2) == {i \in 1..Len(AllPars(d1)) : AllPars(d1)[i] # AllPars(d2)[i]}

\* the value the label iteration about to run binds
CurrentValue == mapping[Keys[key_idx]]

\* C1: one iteration of the label pass, for a field with a value, rewrites at
\* most one paragraph of the document (every other occurrence of the label
\* keeps its text).
C1_SingleReplacementPerField ==
    [][(bpc = "label" /\ CurrentValue # <<>>)
          => Cardinality(Changed(doc, doc')) <= 1]_vars

\* C2: the iteration of the label pass for a field whose value is the empty
\* string changes no paragraph.
C2_EmptyFieldChangesNothing ==
    [][(bpc = "label" /\ CurrentValue = <<>>) => doc' = doc]_vars

\* C3: a paragraph the label pass has already rewritten is not rewritten by
\* the iteration of a later field (one with a value).
C3_LaterFieldKeepsEarlierWrite ==
    [][(bpc = "label" /\ CurrentValue # <<>>)
          => Changed(doc, doc') \cap Changed(template, doc) = {}]_vars

\* the non-empty values of the keys outside used, in mapping order, from key i
RECURSIVE UnconsumedValues(_, _, _)
UnconsumedValues(m, used, i) ==
    IF i > Len(Keys) THEN <<>>
    ELSE IF m[Keys[i]] # <<>> /\ Keys[i] \notin used
    THEN <<m[Keys[i]]>> \o UnconsumedValues(m, used, i + 1)
    ELSE UnconsumedValues(m, used, i + 1)

IsPrefix(a, b) == Len(a) <= Len(b) /\ a = SubSeq(b, 1, Len(a))

\* C4: the values the second pass writes into bracket tokens are, in order,
\* the non-empty values of the fields that no label match consumed.
C4_FallbackWritesUnconsumedOnly ==
    bpc = "save" => IsPrefix(written, UnconsumedValues(mapping, consumed, 1))

\* the rewrite the rule of C5 prescribes for paragraph text p and value v
ClaimedRewrite(p, v) ==
    IF bracket_match(p) # <<>>
    THEN SubSeq(p, 1, bracket_match(p)[1] - 1) \o v
         \o SubSeq(p, bracket_match(p)[2] + 1, Len(p))
    ELSE IF IndexFrom(p, ":", 1) # 0
    THEN SubSeq(p, 1, IndexFrom(p, ":", 1) - 1) \o <<":", " ">> \o v
    ELSE v

\* the outcome of the call is the claimed rewrite
FollowsRule(p, v, r) == r.hit /\ ~r.err /\ r.text = ClaimedRewrite(p, v)

\* C5: whenever a paragraph of the document holds a label variant of a field,
\* the call that binds the field's value rewrites it by the rule: first
\* bracket token replaced, else text after the first colon replaced, else all.
C5_RewriteRule ==
    \A i \in 1..Len(AllPars(doc)) : \A n \in 1..Len(Keys) :
        \A j \in 1..Len(label_variants[Keys[n]]) :
            Contains(LowerText(AllPars(doc)[i]), label_variants[Keys[n]][j])
            => FollowsRule(AllPars(doc)[i], mapping[Keys[n]],
                   _replace_in_paragraph_by_label(AllPars(doc)[i],
                       label_variants[Keys[n]][j], mapping[Keys[n]]))

\* C6: binding the saved document again with the same mapping changes no
\* paragraph text.
C6_BindIdempotent ==
    bpc = "bound again" => AllPars(doc) = AllPars(bound)

-----------------------------------------------------------------------------
(* The webhook (src/app.py:352-716).  An update is handled in one step; a   *)
(* message is the dict Telegram sends: the keys it has decide the branch.   *)

\* str(chat_id)
IdText(chat_id) == <<ToString(chat_id)>>

\* send_message(chat_id, text) and the sendDocument call, as outbound calls
send_message(chat_id, text) ==
    [method |-> "sendMessage", chat_id |-> chat_id, text |-> text]

sendDocument(chat_id) ==
    [method |-> "sendDocument", chat_id |-> chat_id, text |-> <<>>]

\* a check that lets every chat through
is_anyone(chat_id) == chat_id = chat_id

\* src/app.py:333-337
is_admin(chat_id) == chat_id = ADMIN_ID

\* src/app.py:339-345
get_current_target ==
    Or(Get(RUNTIME_TARGET, "target", None), Or(TARGET_USER_ID_ENV, None))

\* SESS[chat_id] after SESS.setdefault(chat_id, {...}) (src/app.py:362)
Session(chat_id) ==
    IF chat_id \in DOMAIN SESS THEN SESS[chat_id]
    ELSE [state |-> "idle", tmp |-> <<>>, template_path |-> None]

\* d[k] = v on a dict
Put(d, k, v) == (k :> v) @@ d

\* the files on disk: the default template (present or not: dflt) and the
\* uploads, stored under their file_name in a fresh directory
LocalPath(fname) == <<"<tmpdir>", "/">> \o fname

JunkName == <<"junk", ".docx">>

PdfName == <<"lesson", ".PDF">>

\* the default template of the deployment
SamplePlan ==
    MakeDoc(<< <<"Lesson", " ", "Title", ":">>,
               <<"Subject", ":", " ", "[", "TBD", "]">> >>, <<>>, <<>>)

\* what is at a path: a .docx package, a file python-docx cannot open, nothing
FileAt(path, dflt) ==
    IF path = DEFAULT_TEMPLATE_PATH
    THEN (IF dflt THEN [kind |-> "docx", doc |-> SamplePlan]
          ELSE [kind |-> "missing", doc |-> NoDoc])
    ELSE IF path = LocalPath(JunkName) THEN [kind |-> "junk", doc |-> NoDoc]
    ELSE [kind |-> "missing", doc |-> NoDoc]

\* the file at the template path of a session (src/app.py:275)
TemplateFile(sess, dflt) == FileAt(Or(sess.template_path, DEFAULT_TEMPLATE_PATH), dflt)

BindOutcome(b) ==
    IF b.err THEN [outcome |-> "bind raised", doc |-> NoDoc]
    ELSE [outcome |-> "bound", doc |-> b.doc]

\* src/app.py:276-317 on the file at the template path: the template is
\* missing, Document() raises, a re.sub of the bind raises, or the document
\* is bound
LoadAndBind(file, m) ==
    IF file.kind = "missing" THEN [outcome |-> "missing", doc |-> NoDoc]
    ELSE IF file.kind = "junk" THEN [outcome |-> "load raised", doc |-> NoDoc]
    ELSE BindOutcome(Bind(file.doc, m))

\* the call where a missing template ends it without a word to the chat
fill_template_quietly(chat_id, b, sent) ==
    IF b.outcome = "missing" THEN [outcome |-> "missing", out |-> <<>>, doc |-> NoDoc]
    ELSE IF b.outcome # "bound" THEN [outcome |-> b.outcome, out |-> <<>>, doc |-> NoDoc]
    ELSE [outcome |-> "sent",
          out |-> <<sendDocument(IdText(chat_id)),
                    send_message(IdText(chat_id), <<"Lesson plan generated">>)>>,
          doc |-> b.doc]

\* one call, b being the outcome of its load and bind and sent whether
\* sendDocument goes through:
\* [outcome, out |-> the calls it makes, doc |-> the document it saved];
\* an outcome "... raised" is an exception that leaves the handler
fill_template_and_send_bracketed(chat_id, b, sent) ==
    IF b.outcome = "missing"
    THEN [outcome |-> "missing",
          out |-> <<send_message(IdText(chat_id), <<"Template not found on server.">>)>>,
          doc |-> NoDoc]
    ELSE IF b.outcome # "bound" THEN [outcome |-> b.outcome, out |-> <<>>, doc |-> NoDoc]
    ELSE IF sent
    THEN [outcome |-> "sent",
          out |-> <<sendDocument(IdText(chat_id)),
                    send_message(IdText(chat_id), <<"Lesson plan generated">>)>>,
          doc |-> b.doc]
    ELSE [outcome |-> "send failed",
          out |-> <<send_message(IdText(chat_id), <<"Failed to send generated file: ">>)>>,
          doc |-> b.doc]

Raised(f) == f.outcome \in {"load raised", "bind raised"}

\* the mapping dict of src/app.py:552-565, 598-611 and 695-708
Assemble(title, grade, subject, teacher, date, text, sumy) ==
    [lesson_title |-> title,
     grade |-> grade,
     subject |-> subject,
     teacher_name |-> teacher,
     date |-> date,
     objectives |-> extract_objectives_from_text(text, sumy),
     resources |-> extract_section(text, ResourceNames),
     outline |-> summarize_text(text, 8, sumy),
     assessment |-> generate_assessment_questions(text, sumy),
     homework |-> extract_section(text, HomeworkNames),
     conclusion |-> extract_section(text, ConclusionNames),
     note |-> extract_section(text, NoteNames)]

\* src/app.py:541, 552-565
PdfMapping(tmp, pdf_text, sumy) ==
    Assemble(Or(Get(tmp, "chapter_title", None), <<"Lesson">>),
             Get(tmp, "grade", <<>>), Get(tmp, "subject", <<>>),
             Get(tmp, "teacher", <<>>), Get(tmp, "date", <<>>), pdf_text, sumy)

\* src/app.py:598-611, 632-645
TextMapping(tmp, text, sumy) ==
    Assemble(Get(tmp, "chapter_title", <<"Pasted", " ", "Lesson">>),
             Get(tmp, "grade", <<>>), Get(tmp, "subject", <<>>),
             Get(tmp, "teacher", <<>>), Get(tmp, "date", <<>>), text, sumy)

\* src/app.py:695-708
WebMapping(grade, subject, chapter, big_text, sumy) ==
    Assemble(chapter, Or(grade, <<>>), Or(subject, <<>>), <<>>, <<>>, big_text, sumy)

\* f"{x}" of a str or None
Format(x) == IF x = None THEN <<"None">> ELSE x

\* max_chars of src/app.py:100
max_chars == 20000

\* src/app.py:100-128 for the url of hit h: the fetch fails (h.fetched is
\* FALSE), or the text the page yields (h.page, src/app.py:108-127) is cut
extract_text_from_url(h) == IF ~h.fetched THEN <<>> ELSE Truncate(h.page, max_chars)

\* the text of a hit where a failed fetch falls back to the snippet
HitTextOrBody(h) ==
    IF Or(h.href, <<>>) # <<>> /\ h.fetched THEN Truncate(h.page, max_chars) ELSE h.body

\* src/app.py:677-683: the text one hit contributes
HitText(h) == IF Or(h.href, <<>>) # <<>> THEN extract_text_from_url(h) ELSE h.body

\* src/app.py:685
big_text(hits, chapter) ==
    Or(Join(NonEmpty([i \in 1..Len(Take(hits, 3)) |-> HitText(hits[i])]), <<"\n", "\n">>),
       Or(Join([i \in 1..Len(hits) |-> hits[i].body], <<" ">>), chapter))

\* the end of a handler: the session of the chat, the runtime target, the
\* outbound calls and the pipeline run it leaves
Returns(chat_id, msg, sess, target, sent, r) ==
    /\ SESS' = Put(SESS, chat_id, sess)
    /\ RUNTIME_TARGET' = target
    /\ out' = sent
    /\ run' = r
    /\ last' = [chat |-> chat_id, msg |-> msg]
    /\ UNCHANGED <<traffic, bvars, ovars>>

\* a handler that ran the pipeline: f is the outcome of the binder call
PipelineReturns(chat_id, msg, sess, said, path, text, m, f) ==
    Returns(chat_id, msg, sess, RUNTIME_TARGET, said \o f.out,
            [path |-> path, text |-> text, mapping |-> m, outcome |-> f.outcome,
             doc |-> f.doc, hits |-> <<>>])

\* the same for the web path, hits being what the search gave
WebReturns(chat_id, msg, sess, said, hits, text, m, f) ==
    Returns(chat_id, msg, sess, RUNTIME_TARGET, said \o f.out,
            [path |-> "web", text |-> text, mapping |-> m, outcome |-> f.outcome,
             doc |-> f.doc, hits |-> hits])

Text(msg) == Strip(msg.text)

UploadPDF == <<"Upload", " ", "PDF">>

PasteText == <<"Paste", " ", "Text">>

AskBot == <<"Ask", " ", "Bot", " ", "to", " ", "Find", " ", "Lesson">>

\* the length above which an idle text counts as pasted (src/app.py:503)
PasteThreshold == 120

\* the blocks after the text blocks (src/app.py:510-716)
LaterBranch(msg) ==
    IF "document" \in DOMAIN msg THEN "Document"
    ELSE IF "photo" \in DOMAIN msg THEN "Photo"
    ELSE IF "text" \in DOMAIN msg THEN "FlowText"
    ELSE "OtherMessage"

\* the block of the handler that returns for a message whose stripped text
\* is text, in a session in the given state (src/app.py:365-507)
TextBranch(chat_id, msg, text, state) ==
    IF StartsWith(text, <<"/admin">>) THEN "AdminOpen"
    ELSE IF StartsWith(text, <<"/settarget">>) THEN "SetTarget"
    ELSE IF StartsWith(text, <<"/showtarget">>) THEN "ShowTarget"
    ELSE IF StartsWith(text, <<"/sendtarget">>) THEN "SendTarget"
    ELSE IF state = "admin_menu" /\ is_admin(chat_id) THEN "AdminMenu"
    ELSE IF /\ is_admin(chat_id)
            /\ state \in {"admin_send_message", "admin_set_target", "admin_set_template"}
    THEN "AdminFollowUp"
    ELSE IF LowerText(text) = <<"/hi_rise">> THEN "HiRise"
    ELSE IF /\ state = "idle"
            /\ \/ text \in {UploadPDF, PasteText, AskBot}
               \/ TextLen(text) > PasteThreshold
    THEN "IdleOption"
    ELSE LaterBranch(msg)

\* the block of the handler that returns for a message
Branch(chat_id, msg) ==
    IF "text" \in DOMAIN msg
    THEN TextBranch(chat_id, msg, Strip(msg.text), Session(chat_id).state)
    ELSE LaterBranch(msg)

\* src/app.py:368-375
AdminOpen(chat_id, msg) ==
    /\ Branch(chat_id, msg) = "AdminOpen"
    /\ IF ~is_admin(chat_id)
       THEN Returns(chat_id, msg, Session(chat_id), RUNTIME_TARGET,
                <<send_message(IdText(chat_id),
                      <<"Unauthorized. Only admin can use this command.">>)>>, NoRun)
       ELSE Returns(chat_id, msg, [Session(chat_id) EXCEPT !.state = "admin_menu"],
                RUNTIME_TARGET,
                <<send_message(IdText(chat_id), <<"Admin menu - choose an action:">>)>>,
                NoRun)

\* src/app.py:382-387 for an admin, parts being text.split(maxsplit=1)
SetTargetGiven(chat_id, msg, parts) ==
    IF Len(parts) = 2 /\ IsDigit(Strip(parts[2]))
    THEN Returns(chat_id, msg, Session(chat_id), Put(RUNTIME_TARGET, "target", Strip(parts[2])),
             <<send_message(IdText(chat_id),
                   <<"Runtime target set to: ">> \o Strip(parts[2]))>>, NoRun)
    ELSE Returns(chat_id, msg, Session(chat_id), RUNTIME_TARGET,
             <<send_message(IdText(chat_id), <<"Usage: /settarget <chat_id>">>)>>, NoRun)

\* src/app.py:378-388
SetTarget(chat_id, msg) ==
    /\ Branch(chat_id, msg) = "SetTarget"
    /\ IF ~is_admin(chat_id)
       THEN Returns(chat_id, msg, Session(chat_id), RUNTIME_TARGET,
                <<send_message(IdText(chat_id), <<"Unauthorized.">>)>>, NoRun)
       ELSE SetTargetGiven(chat_id, msg, SplitOnce(Text(msg)))

\* src/app.py:391-397
ShowTarget(chat_id, msg) ==
    /\ Branch(chat_id, msg) = "ShowTarget"
    /\ IF ~is_admin(chat_id)
       THEN Returns(chat_id, msg, Session(chat_id), RUNTIME_TARGET,
                <<send_message(IdText(chat_id), <<"Unauthorized.">>)>>, NoRun)
       ELSE Returns(chat_id, msg, Session(chat_id), RUNTIME_TARGET,
                <<send_message(IdText(chat_id),
                      <<"Current target: ">> \o Or(get_current_target, <<"None">>))>>,
                NoRun)

\* src/app.py:404-414 for an admin
SendTargetGiven(chat_id, msg, parts, target) ==
    IF Len(parts) # 2
    THEN Returns(chat_id, msg, Session(chat_id), RUNTIME_TARGET,
             <<send_message(IdText(chat_id), <<"Usage: /sendtarget <message>">>)>>, NoRun)
    ELSE IF Or(target, <<>>) = <<>>
    THEN Returns(chat_id, msg, Session(chat_id), RUNTIME_TARGET,
             <<send_message(IdText(chat_id), <<"No target set.">>)>>, NoRun)
    ELSE Returns(chat_id, msg, Session(chat_id), RUNTIME_TARGET,
             <<send_message(target, Strip(parts[2])),
               send_message(IdText(chat_id), <<"Message sent to ">> \o target)>>, NoRun)

\* src/app.py:400-414
SendTarget(chat_id, msg) ==
    /\ Branch(chat_id, msg) = "SendTarget"
    /\ IF ~is_admin(chat_id)
       THEN Returns(chat_id, msg, Session(chat_id), RUNTIME_TARGET,
                <<send_message(IdText(chat_id), <<"Unauthorized.">>)>>, NoRun)
       ELSE SendTargetGiven(chat_id, msg, SplitOnce(Text(msg)), get_current_target)

\* the choices of the admin keyboard (src/app.py:372)
SendMessageToTarget == <<"Send", " ", "Message", " ", "to", " ", "Target">>

ShowTargetChoice == <<"Show", " ", "Target">>

SetTargetChoice == <<"Set", " ", "Target">>

SetTemplatePath == <<"Set", " ", "Template", " ", "Path">>

ExitAdmin == <<"Exit", " ", "Admin">>

\* the state and the reply of src/app.py:419-442 for a choice
AdminChoice(choice) ==
    IF choice = SendMessageToTarget
    THEN [state |-> "admin_send_message",
          text |-> <<"Please send the message you want to forward to the target">>]
    ELSE IF choice = ShowTargetChoice
    THEN [state |-> "admin_menu",
          text |-> <<"Current target: ">> \o Or(get_current_target, <<"None">>)]
    ELSE IF choice = SetTargetChoice
    THEN [state |-> "admin_set_target",
          text |-> <<"Send the chat_id to set as runtime target (digits only).">>]
    ELSE IF choice = SetTemplatePath
    THEN [state |-> "admin_set_template",
          text |-> <<"Send the absolute path to set as default template for admin">>]
    ELSE IF choice = ExitAdmin
    THEN [state |-> "idle", text |-> <<"Exiting admin menu.">>]
    ELSE [state |-> "idle", text |-> <<"Unknown admin choice.">>]

\* src/app.py:417-442
AdminMenu(chat_id, msg) ==
    /\ Branch(chat_id, msg) = "AdminMenu"
    /\ Returns(chat_id, msg,
           [Session(chat_id) EXCEPT !.state = AdminChoice(Text(msg)).state],
           RUNTIME_TARGET,
           <<send_message(IdText(chat_id), AdminChoice(Text(msg)).text)>>, NoRun)

\* src/app.py:447-457
AdminSendMessage(chat_id, msg, target) ==
    IF Or(target, <<>>) = <<>>
    THEN Returns(chat_id, msg, [Session(chat_id) EXCEPT !.state = "admin_menu"],
             RUNTIME_TARGET,
             <<send_message(IdText(chat_id), <<"No target set.">>)>>, NoRun)
    ELSE Returns(chat_id, msg, [Session(chat_id) EXCEPT !.state = "admin_menu"],
             RUNTIME_TARGET,
             <<send_message(target, Text(msg)),
               send_message(IdText(chat_id), <<"Message sent to ">> \o target)>>, NoRun)

\* src/app.py:458-466
AdminSetTarget(chat_id, msg) ==
    IF IsDigit(Text(msg))
    THEN Returns(chat_id, msg, [Session(chat_id) EXCEPT !.state = "admin_menu"],
             Put(RUNTIME_TARGET, "target", Text(msg)),
             <<send_message(IdText(chat_id), <<"Runtime target set to ">> \o Text(msg))>>,
             NoRun)
    ELSE Returns(chat_id, msg, [Session(chat_id) EXCEPT !.state = "admin_menu"],
             RUNTIME_TARGET,
             <<send_message(IdText(chat_id), <<"Invalid chat_id. Digits only.">>)>>, NoRun)

\* src/app.py:467-475, exists being os.path.exists(cand)
AdminSetTemplate(chat_id, msg, exists) ==
    IF exists
    THEN Returns(chat_id, msg,
             [Session(chat_id) EXCEPT !.state = "admin_menu", !.template_path = Text(msg)],
             RUNTIME_TARGET,
             <<send_message(IdText(chat_id),
                   <<"Admin template path set to: ">> \o Text(msg))>>, NoRun)
    ELSE Returns(chat_id, msg, [Session(chat_id) EXCEPT !.state = "admin_menu"],
             RUNTIME_TARGET,
             <<send_message(IdText(chat_id),
                   <<"Path does not exist in container: ">> \o Text(msg))>>, NoRun)

\* src/app.py:445-475
AdminFollowUp(chat_id, msg) ==
    /\ Branch(chat_id, msg) = "AdminFollowUp"
    /\ IF Session(chat_id).state = "admin_send_message"
       THEN AdminSendMessage(chat_id, msg, get_current_target)
       ELSE IF Session(chat_id).state = "admin_set_target"
       THEN AdminSetTarget(chat_id, msg)
       ELSE \E dflt \in BOOLEAN :
               AdminSetTemplate(chat_id, msg, FileAt(Text(msg), dflt).kind # "missing")

\* an entry command that ends the flow and keeps what the flow collected
HiRiseKeepsTmp(chat_id, msg) ==
    /\ Branch(chat_id, msg) = "HiRise"
    /\ Returns(chat_id, msg, [Session(chat_id) EXCEPT !.state = "idle"],
           RUNTIME_TARGET,
           <<send_message(IdText(chat_id),
                 <<"Hi! For which lesson shall we create a lesson plan today?">>)>>, NoRun)

\* an entry command that empties tmp and leaves the state where it was
HiRiseKeepsState(chat_id, msg) ==
    /\ Branch(chat_id, msg) = "HiRise"
    /\ Returns(chat_id, msg, [Session(chat_id) EXCEPT !.tmp = <<>>],
           RUNTIME_TARGET,
           <<send_message(IdText(chat_id),
                 <<"Hi! For which lesson shall we create a lesson plan today?">>)>>, NoRun)

\* src/app.py:481-486
HiRise(chat_id, msg) ==
    /\ Branch(chat_id, msg) = "HiRise"
    /\ Returns(chat_id, msg, [Session(chat_id) EXCEPT !.state = "idle", !.tmp = <<>>],
           RUNTIME_TARGET,
           <<send_message(IdText(chat_id),
                 <<"Hi! For which lesson shall we create a lesson plan today?">>)>>, NoRun)

\* src/app.py:489-507
IdleOption(chat_id, msg) ==
    /\ Branch(chat_id, msg) = "IdleOption"
    /\ IF Text(msg) = UploadPDF
       THEN Returns(chat_id, msg, [Session(chat_id) EXCEPT !.state = "await_pdf"],
                RUNTIME_TARGET,
                <<send_message(IdText(chat_id),
                      <<"Please upload the lesson PDF as a document now">>)>>, NoRun)
       ELSE IF Text(msg) = PasteText
       THEN Returns(chat_id, msg, [Session(chat_id) EXCEPT !.state = "await_text"],
                RUNTIME_TARGET,
                <<send_message(IdText(chat_id), <<"Please paste the chapter text now.">>)>>,
                NoRun)
       ELSE IF Text(msg) = AskBot
       THEN Returns(chat_id, msg, [Session(chat_id) EXCEPT !.state = "await_grade"],
                RUNTIME_TARGET,
                <<send_message(IdText(chat_id), <<"Okay - which Grade? (e.g., Grade 6)">>)>>,
                NoRun)
       ELSE Returns(chat_id, msg,
                [Session(chat_id) EXCEPT !.state = "confirm_from_text",
                     !.tmp = Put(Session(chat_id).tmp, "text_candidate", Text(msg))],
                RUNTIME_TARGET,
                <<send_message(IdText(chat_id),
                      <<"I detected pasted text - reply 'Yes' to confirm generation.">>)>>,
                NoRun)

\* what extract_text_from_pdf does on a downloaded file: it raises, or it
\* returns the text of the pages
PdfReads ==
    { [raises |-> TRUE, text |-> <<>>],
      [raises |-> FALSE, text |-> <<>>],
      [raises |-> FALSE,
       text |-> <<"Students", " ", "will", " ", "learn", " ", "photosynthesis", ".", "\n",
                  "Homework", ":", " ", "read", " ", "chapter", " ", "two", ".">>],
      [raises |-> FALSE, text |-> <<Page, "\n", Page, "\n", Page>>] }

\* src/app.py:539-568: the PDF was read; the state is set to idle after the
\* binder call, so not when the call raises
PdfPipeline(chat_id, msg, pdf_text, m, f) ==
    PipelineReturns(chat_id, msg,
        IF Raised(f) THEN Session(chat_id) ELSE [Session(chat_id) EXCEPT !.state = "idle"],
        <<send_message(IdText(chat_id), <<"PDF received. Generating lesson plan...">>)>>,
        "pdf", pdf_text, m, f)

\* src/app.py:531-568
PdfUpload(chat_id, msg) ==
    \E pdf \in PdfReads :
        IF pdf.raises
        THEN Returns(chat_id, msg, [Session(chat_id) EXCEPT !.state = "idle"],
                 RUNTIME_TARGET,
                 <<send_message(IdText(chat_id), <<"PDF extraction failed: ">>)>>,
                 [NoRun EXCEPT !.outcome = "read raised"])
        ELSE \E sumy \in BOOLEAN :
                \E m \in {PdfMapping(Session(chat_id).tmp, pdf.text, sumy)} :
                    \E dflt \in BOOLEAN :
                        \E b \in {LoadAndBind(TemplateFile(Session(chat_id), dflt), m)} :
                            \E sent \in BOOLEAN :
                                PdfPipeline(chat_id, msg, pdf.text, m,
                                    fill_template_and_send_bracketed(chat_id, b, sent))

\* doc.get("file_name", "file")
FileName(msg) == Get(msg.document, "file_name", <<"file">>)

\* a document handler that runs the pipeline on a PDF whatever the state
DocumentAnyState(chat_id, msg) ==
    /\ Branch(chat_id, msg) = "Document"
    /\ \E downloaded \in BOOLEAN :
          IF ~downloaded
          THEN Returns(chat_id, msg, [Session(chat_id) EXCEPT !.state = "idle"],
                   RUNTIME_TARGET,
                   <<send_message(IdText(chat_id), <<"Failed to download file: ">>)>>,
                   [NoRun EXCEPT !.outcome = "download failed"])
          ELSE IF EndsWith(LowerText(FileName(msg)), <<".docx">>)
          THEN Returns(chat_id, msg,
                   [Session(chat_id) EXCEPT !.state = "idle",
                        !.template_path = LocalPath(FileName(msg))],
                   RUNTIME_TARGET,
                   <<send_message(IdText(chat_id),
                         <<"Template uploaded and saved for your session.">>)>>, NoRun)
          ELSE IF EndsWith(LowerText(FileName(msg)), <<".pdf">>)
          THEN PdfUpload(chat_id, msg)
          ELSE Returns(chat_id, msg, [Session(chat_id) EXCEPT !.state = "idle"],
                   RUNTIME_TARGET,
                   <<send_message(IdText(chat_id), <<"Document received.">>)>>, NoRun)

\* src/app.py:510-572
Document(chat_id, msg) ==
    /\ Branch(chat_id, msg) = "Document"
    /\ \E downloaded \in BOOLEAN :
          IF ~downloaded
          THEN Returns(chat_id, msg, [Session(chat_id) EXCEPT !.state = "idle"],
                   RUNTIME_TARGET,
                   <<send_message(IdText(chat_id), <<"Failed to download file: ">>)>>,
                   [NoRun EXCEPT !.outcome = "download failed"])
          ELSE IF EndsWith(LowerText(FileName(msg)), <<".docx">>)
          THEN Returns(chat_id, msg,
                   [Session(chat_id) EXCEPT !.state = "idle",
                        !.template_path = LocalPath(FileName(msg))],
                   RUNTIME_TARGET,
                   <<send_message(IdText(chat_id),
                         <<"Template uploaded and saved for your session.">>)>>, NoRun)
          ELSE IF /\ EndsWith(LowerText(FileName(msg)), <<".pdf">>)
                  /\ Session(chat_id).state = "await_pdf"
          THEN PdfUpload(chat_id, msg)
          ELSE Returns(chat_id, msg, [Session(chat_id) EXCEPT !.state = "idle"],
                   RUNTIME_TARGET,
                   <<send_message(IdText(chat_id), <<"Document received.">>)>>, NoRun)

\* the notice that answers a photo (src/app.py:576)
PhotoNotice == <<"Photo received. OCR is not enabled in this deployment.">>

\* a photo handler that ends the flow as the document handler does
PhotoEndsFlow(chat_id, msg) ==
    /\ Branch(chat_id, msg) = "Photo"
    /\ Returns(chat_id, msg, [Session(chat_id) EXCEPT !.state = "idle"], RUNTIME_TARGET,
           <<send_message(IdText(chat_id), PhotoNotice)>>, NoRun)

\* a photo handler that returns without a word
PhotoDropped(chat_id, msg) ==
    /\ Branch(chat_id, msg) = "Photo"
    /\ Returns(chat_id, msg, Session(chat_id), RUNTIME_TARGET, <<>>, NoRun)

\* src/app.py:575-577
Photo(chat_id, msg) ==
    /\ Branch(chat_id, msg) = "Photo"
    /\ Returns(chat_id, msg, Session(chat_id), RUNTIME_TARGET,
           <<send_message(IdText(chat_id), PhotoNotice)>>, NoRun)

\* txt.lower() in ("yes", "y")
IsYes(txt) == LowerText(txt) \in {<<"yes">>, <<"y">>}

\* src/app.py:586-613 and 620-647: the state is idle before the pipeline runs
PastedPipeline(chat_id, msg, path, text) ==
    \E sumy \in BOOLEAN :
        \E m \in {TextMapping(Session(chat_id).tmp, text, sumy)} :
            \E dflt \in BOOLEAN :
                \E b \in {LoadAndBind(TemplateFile(Session(chat_id), dflt), m)} :
                    \E sent \in BOOLEAN :
                        PipelineReturns(chat_id, msg,
                            [Session(chat_id) EXCEPT !.state = "idle"],
                            <<send_message(IdText(chat_id),
                                  <<"Generating lesson plan from pasted text...">>)>>,
                            path, text, m,
                            fill_template_and_send_bracketed(chat_id, b, sent))

\* the confirm block without its test of the reply
ConfirmAlways(chat_id, msg) ==
    PastedPipeline(chat_id, msg, "confirm",
        Get(Session(chat_id).tmp, "text_candidate", <<>>))

\* src/app.py:584-617
ConfirmFromText(chat_id, msg) ==
    IF IsYes(Text(msg))
    THEN PastedPipeline(chat_id, msg, "confirm",
             Get(Session(chat_id).tmp, "text_candidate", <<>>))
    ELSE Returns(chat_id, msg, [Session(chat_id) EXCEPT !.state = "idle"], RUNTIME_TARGET,
             <<send_message(IdText(chat_id), <<"Cancelled. Send /hi_rise to begin again.">>)>>,
             NoRun)

\* a hit of the search: its url, its snippet, whether the fetch of the url
\* goes through and the text the page then yields
Hit(n, body, fetched, page) ==
    [href |-> <<"https://example.org/", n>>, body |-> body, fetched |-> fetched,
     page |-> page]

Snippet == <<"Plants", " ", "make", " ", "food", ".">>

LessonPage ==
    <<"Students", " ", "will", " ", "learn", " ", "photosynthesis", ".", "\n",
      "Homework", ":", " ", "read", " ", "chapter", " ", "two", ".">>

LongPage == <<Page, Page, "\n", Page>>

\* what ddg(query) and the fetches give: no hit (or ddg raises); one hit
\* whose fetch fails, with and without a snippet; one hit whose page is
\* fetched; four hits, the fetch of the first failing; three long pages
HitLists ==
    { <<>>,
      << Hit("a", Snippet, FALSE, <<>>) >>,
      << Hit("a", <<>>, FALSE, <<>>) >>,
      << Hit("a", Snippet, TRUE, LessonPage) >>,
      << Hit("a", Snippet, FALSE, <<>>), Hit("b", <<>>, TRUE, Snippet),
         Hit("c", <<>>, TRUE, LessonPage), Hit("d", <<>>, TRUE, <<"Note", ":", " ", "none">>) >>,
      << Hit("a", <<>>, TRUE, LongPage), Hit("b", <<>>, TRUE, LongPage),
         Hit("c", <<>>, TRUE, LongPage) >> }

\* f"Searching web for: {query}" (src/app.py:667-668)
SearchingFor(tmp) ==
    <<"Searching web for: ">> \o Format(Get(tmp, "grade", None))
    \o <<" ">> \o Format(Get(tmp, "subject", None))
    \o <<" ">> \o Format(Get(tmp, "chapter", None))
    \o <<" ", "summary", " ", "lesson">>

\* src/app.py:663-710, tmp being the session's tmp with the chapter stored
WebPipeline(chat_id, msg, tmp) ==
    \E hits \in HitLists :
        \E text \in {big_text(hits, Get(tmp, "chapter", None))} :
            \E sumy \in BOOLEAN :
                \E m \in {WebMapping(Get(tmp, "grade", None), Get(tmp, "subject", None),
                                     Get(tmp, "chapter", None), text, sumy)} :
                    \E dflt \in BOOLEAN :
                        \E b \in {LoadAndBind(TemplateFile(Session(chat_id), dflt), m)} :
                            \E sent \in BOOLEAN :
                                WebReturns(chat_id, msg,
                                    [Session(chat_id) EXCEPT !.state = "idle", !.tmp = tmp],
                                    <<send_message(IdText(chat_id), SearchingFor(tmp))>>,
                                    hits, text, m,
                                    fill_template_and_send_bracketed(chat_id, b, sent))

\* src/app.py:580-714
FlowText(chat_id, msg) ==
    /\ Branch(chat_id, msg) = "FlowText"
    /\ CASE Session(chat_id).state = "confirm_from_text" -> ConfirmFromText(chat_id, msg)
         [] Session(chat_id).state = "await_text" ->
                PastedPipeline(chat_id, msg, "text", Text(msg))
         [] Session(chat_id).state = "await_grade" ->
                Returns(chat_id, msg,
                    [Session(chat_id) EXCEPT !.state = "await_subject",
                         !.tmp = Put(<<>>, "grade", Text(msg))],
                    RUNTIME_TARGET,
                    <<send_message(IdText(chat_id), <<"Which Subject?">>)>>, NoRun)
         [] Session(chat_id).state = "await_subject" ->
                Returns(chat_id, msg,
                    [Session(chat_id) EXCEPT !.state = "await_chapter",
                         !.tmp = Put(Session(chat_id).tmp, "subject", Text(msg))],
                    RUNTIME_TARGET,
                    <<send_message(IdText(chat_id),
                          <<"Which Chapter name or number should I search for?">>)>>, NoRun)
         [] Session(chat_id).state = "await_chapter" ->
                WebPipeline(chat_id, msg, Put(Session(chat_id).tmp, "chapter", Text(msg)))
         [] OTHER ->
                Returns(chat_id, msg, Session(chat_id), RUNTIME_TARGET,
                    <<send_message(IdText(chat_id),
                          <<"Send /hi_rise to start the lesson-plan flow">>)>>, NoRun)

\* src/app.py:716: a message with no text, document or photo
OtherMessage(chat_id, msg) ==
    /\ Branch(chat_id, msg) = "OtherMessage"
    /\ Returns(chat_id, msg, Session(chat_id), RUNTIME_TARGET, <<>>, NoRun)

\* src/app.py:355-359: an update that carries no message
NoMessage ==
    /\ last' = [chat |-> 0, msg |-> [none |-> TRUE]]
    /\ out' = <<>>
    /\ run' = NoRun
    /\ UNCHANGED <<SESS, RUNTIME_TARGET, traffic, bvars, ovars>>

-----------------------------------------------------------------------------
(* The updates of the model                                                 *)

Chats == {ADMIN_ID, ADMIN_ID + 1}

\* a pasted text of 121 characters, and its first 120
PastedText ==
    <<Rule, "\n", "Students", " ", "will", " ", "learn", " ", "photosynthesis", ".", "\n",
      "Homework", ":", " ", "read", " ", "chapter", " ", "two", ".">>

Text120 == SubSeq(PastedText, 1, Len(PastedText) - 1)

TextMessage(t) == [text |-> t]

DocumentMessage(fname) == [document |-> [file_name |-> fname, file_id |-> fname]]

\* a photo as Telegram sends it: sizes, no text and no document
PhotoMessage == [photo |-> <<"p1">>]

\* a document without a file_name, a photo, a sticker
Attachments ==
    { [document |-> [file_id |-> <<"f1">>]], PhotoMessage, [sticker |-> <<"s1">>] }

\* the sentence of the objectives scenario and two texts of 500 characters
\* that contain it: at their start, and after another sentence
PlantParts == <<"Students", " ", "will", " ", "be", " ", "able", " ", "to", " ", "identify", " ", "plant", " ", "parts", ".">>

Pad54 == "______________________________________________________"

Pad36 == "____________________________________"

PlantPartsFirst == PlantParts \o <<" ">> \o Rules(7) \o <<Pad54>>

PlantPartsSecond ==
    <<"Plants", " ", "will", " ", "grow", ".", " ">> \o PlantParts \o <<" ">> \o Rules(7) \o <<Pad36>>

\* the updates of a run, by the kind of traffic it carries and by chat:
\*   desk:  the admin uses every command and menu choice, the other chat
\*          tries the commands
\*   paste: a chat pastes texts around the threshold, confirms, uploads files
\*   web:   a chat answers the questions of the search flow, then uploads a PDF
\*   plant: a chat pastes a text of 500 characters, asked for or not
\*   office: the admin answers the questions of the search flow and opens
\*          and leaves the admin menu in between
Traffic == {"desk", "paste", "web", "plant", "office"}

Inbox(kind, chat_id) ==
    IF kind = "desk" /\ chat_id = ADMIN_ID
    THEN {TextMessage(t) : t \in
              {<<"/admin">>, <<"/settarget", " ", "3">>, <<"/settarget">>,
               <<"/showtarget">>, <<"/sendtarget", " ", "Hi">>, <<"/sendtarget">>,
               SendMessageToTarget, ShowTargetChoice, SetTargetChoice, SetTemplatePath,
               ExitAdmin, <<"3">>, DEFAULT_TEMPLATE_PATH}}
         \cup {PhotoMessage, DocumentMessage(JunkName), DocumentMessage(PdfName)}
    ELSE IF kind = "desk"
    THEN {TextMessage(t) : t \in
              {<<"/admin">>, <<"/settarget", " ", "1">>, <<"/showtarget">>,
               <<"/sendtarget", " ", "Hi">>, SetTargetChoice, <<"2">>}}
    ELSE IF kind = "paste" /\ chat_id # ADMIN_ID
    THEN {TextMessage(t) : t \in
              {<<"/admin", " ">> \o PastedText, <<"/showtarget">>, <<" ", "/Hi_Rise", " ">>,
               UploadPDF, PasteText, <<" ", "Yes", " ">>, <<"y">>, PastedText, Text120}}
         \cup {DocumentMessage(JunkName), DocumentMessage(PdfName)}
         \cup Attachments
    ELSE IF kind = "web" /\ chat_id # ADMIN_ID
    THEN {TextMessage(t) : t \in
              {AskBot, UploadPDF, <<"Grade", " ", "6">>, <<"Art", "\\", "Design">>,
               <<" ", "/Hi_Rise", " ">>}}
         \cup {DocumentMessage(PdfName), PhotoMessage}
    ELSE IF kind = "plant" /\ chat_id # ADMIN_ID
    THEN {TextMessage(t) : t \in {PasteText, PlantPartsFirst, PlantPartsSecond, <<"yes">>}}
    ELSE IF kind = "office" /\ chat_id = ADMIN_ID
    THEN {TextMessage(t) : t \in {<<"/admin">>, ExitAdmin, AskBot, <<"Grade", " ", "6">>}}
    ELSE {}

\* the state of the binder's variables while the webhook is modelled
BinderIdle ==
    /\ bpc = "returned"
    /\ template = NoDoc
    /\ doc = NoDoc
    /\ mapping = <<>>
    /\ key_idx = 1
    /\ consumed = {}
    /\ written = <<>>
    /\ bound = NoDoc
    /\ bout = <<>>

Init == InitWebhook /\ traffic \in Traffic /\ BinderIdle /\ call = NoCall /\ RaceIdle

Next ==
    \/ \E chat_id \in Chats : \E msg \in Inbox(traffic, chat_id) : AdminOpen(chat_id, msg)
    \/ \E chat_id \in Chats : \E msg \in Inbox(traffic, chat_id) : SetTarget(chat_id, msg)
    \/ \E chat_id \in Chats : \E msg \in Inbox(traffic, chat_id) : ShowTarget(chat_id, msg)
    \/ \E chat_id \in Chats : \E msg \in Inbox(traffic, chat_id) : SendTarget(chat_id, msg)
    \/ \E chat_id \in Chats : \E msg \in Inbox(traffic, chat_id) : AdminMenu(chat_id, msg)
    \/ \E chat_id \in Chats : \E msg \in Inbox(traffic, chat_id) : AdminFollowUp(chat_id, msg)
    \/ \E chat_id \in Chats : \E msg \in Inbox(traffic, chat_id) : HiRise(chat_id, msg)
    \/ \E chat_id \in Chats : \E msg \in Inbox(traffic, chat_id) : IdleOption(chat_id, msg)
    \/ \E chat_id \in Chats : \E msg \in Inbox(traffic, chat_id) : Document(chat_id, msg)
    \/ \E chat_id \in Chats : \E msg \in Inbox(traffic, chat_id) : Photo(chat_id, msg)
    \/ \E chat_id \in Chats : \E msg \in Inbox(traffic, chat_id) : FlowText(chat_id, msg)
    \/ \E chat_id \in Chats : \E msg \in Inbox(traffic, chat_id) : OtherMessage(chat_id, msg)
    \/ NoMessage

Spec == Init /\ [][Next]_vars

-----------------------------------------------------------------------------
(* Claims on the webhook.  A step of Spec handles one update: last' is the  *)
(* update, the unprimed variables are the state it found.                   *)

\* the update of the step is a message of a chat
IsEvent == last'.chat # 0

\* the update of the step is a text message
IsTextEvent == IsEvent /\ "text" \in DOMAIN last'.msg

\* the session of the sender before and after the step
StateBefore == Session(last'.chat).state

StateAfter == SESS'[last'.chat].state

\* the stripped text of the update is yes or y in any case
RepliesYes == LowerText(Text(last'.msg)) \in {<<"yes">>, <<"y">>}

\* the update is one of the four events that start the pipeline
StartsPipeline ==
    /\ IsEvent
    /\ \/ /\ "document" \in DOMAIN last'.msg
          /\ "text" \notin DOMAIN last'.msg
          /\ EndsWith(LowerText(FileName(last'.msg)), <<".pdf">>)
          /\ StateBefore = "await_pdf"
       \/ /\ Branch(last'.chat, last'.msg) = "FlowText"
          /\ \/ StateBefore \in {"await_text", "await_chapter"}
             \/ StateBefore = "confirm_from_text" /\ RepliesYes

\* C7: every event that starts the pipeline (a PDF in await_pdf, a text in
\* await_text, a confirmation in confirm_from_text, the chapter in
\* await_chapter) leaves the session of its chat in state idle, whether the
\* document is sent or a step fails.
C7_PipelineLeavesIdle ==
    [][StartsPipeline => StateAfter = "idle"]_vars

\* a text the handler answers as a command before it looks at the flow
\* (src/app.py:368, 378, 391, 400)
IsCommand(text) ==
    \/ StartsWith(text, <<"/admin">>)
    \/ StartsWith(text, <<"/settarget">>)
    \/ StartsWith(text, <<"/showtarget">>)
    \/ StartsWith(text, <<"/sendtarget">>)

\* what holds of every text event, command or not: the pipeline runs on a
\* candidate only on a yes received in confirm_from_text, and a text of at
\* most 120 characters received in idle is not taken as pasted content
ConfirmationOnly ==
    /\ run'.path = "confirm" =>
          /\ StateBefore = "confirm_from_text"
          /\ RepliesYes
          /\ run'.text = Get(Session(last'.chat).tmp, "text_candidate", None)
    /\ (StateBefore = "idle" /\ TextLen(Text(last'.msg)) <= 120) =>
          /\ StateAfter # "confirm_from_text"
          /\ run'.path = "none"

\* a long text found in idle is held as candidate, nothing runs
HeldAsCandidate ==
    (StateBefore = "idle" /\ TextLen(Text(last'.msg)) > 120) =>
        /\ run'.path = "none"
        /\ StateAfter = "confirm_from_text"
        /\ Get(SESS'[last'.chat].tmp, "text_candidate", None) = Text(last'.msg)

\* a text other than yes found in confirm_from_text cancels
OtherTextCancels ==
    (StateBefore = "confirm_from_text" /\ ~RepliesYes) =>
        /\ StateAfter = "idle"
        /\ run'.path = "none"

AdminStates ==
    {"admin_menu", "admin_send_message", "admin_set_target", "admin_set_template"}

\* C9: a session in one of the admin states belongs to ADMIN_ID; an event of
\* any other chat never changes the runtime target and never sends a message
\* to a chat other than the sender's.
C9_AdminGating ==
    [][/\ \A c \in DOMAIN SESS' : SESS'[c].state \in AdminStates => c = ADMIN_ID
       /\ (IsEvent /\ last'.chat # ADMIN_ID) =>
             /\ RUNTIME_TARGET' = RUNTIME_TARGET
             /\ \A i \in 1..Len(out') : out'[i].chat_id = IdText(last'.chat)]_vars

\* a chat other than the admin asked for a message to the target, the target
\* being set to a third chat, and was refused
C9_Witness ==
    /\ last.chat # 0
    /\ last.chat # ADMIN_ID
    /\ "text" \in DOMAIN last.msg
    /\ StartsWith(Text(last.msg), <<"/sendtarget">>)
    /\ Get(RUNTIME_TARGET, "target", None) = <<"3">>
    /\ out = <<send_message(IdText(last.chat), <<"Unauthorized.">>)>>

FieldKeys ==
    {"lesson_title", "grade", "subject", "teacher_name", "date", "objectives",
     "resources", "outline", "assessment", "homework", "conclusion", "note"}

\* a Python str: a sequence of pieces of text, and not None
IsStr(v) == v # None /\ \A i \in 1..Len(v) : v[i] \in STRING

\* C10: on every path that calls the binder the field record has exactly the
\* twelve keys and every value is a string, never None, also when the input
\* text is empty and when the session collected no metadata.
C10_FieldRecordComplete ==
    run.path # "none" =>
        /\ DOMAIN run.mapping = FieldKeys
        /\ \A k \in FieldKeys : IsStr(run.mapping[k])

\* the binder was called for a PDF without text in a session without metadata
C10_Witness ==
    /\ run.path = "pdf"
    /\ run.text = <<>>
    /\ SESS[last.chat].tmp = <<>>
    /\ run.mapping.grade = <<>>
    /\ run.mapping.lesson_title = <<"Lesson">>

\* the failure message of a request that ended on a missing template or on
\* a PDF that could not be read
FailureText ==
    IF run.outcome = "missing" THEN <<"Template not found on server.">>
    ELSE <<"PDF extraction failed: ">>

\* C11: when the template file of the session does not exist as the binder
\* runs, and when the PDF cannot be read, the last thing the request sends is
\* the failure message, to the requester, and it issues no sendDocument.
C11_FailureEndsRequest ==
    run.outcome \in {"missing", "read raised"} =>
        /\ out # <<>>
        /\ out[Len(out)] = send_message(IdText(last.chat), FailureText)
        /\ \A i \in 1..Len(out) : out[i].method # "sendDocument"

\* a PDF was read in await_pdf and the template was not there
C11_Witness ==
    /\ run.path = "pdf"
    /\ run.outcome = "missing"
    /\ "document" \in DOMAIN last.msg
    /\ Len(out) = 2

\* C12: the text handed to the summarizer and to the section heuristics is
\* never longer than 20,000 characters, whatever the path: PDF, pasted text
\* or the web aggregate.
C12_TextWithinCap ==
    run.path # "none" => TextLen(run.text) <= 20000

-----------------------------------------------------------------------------
(* The extraction helpers called on their own: a behaviour is one call,     *)
(* which draws its arguments from the sets below and leaves them, with the  *)
(* value returned, in call.                                                 *)

\* the contents of a labeled section: a short list, nothing, a long line that
\* has a blank as its 800th character, lines of which the second begins with
\* a small letter (with a colon in its middle, or without any)
LongContent == Rules(14) \o <<"a", " ", "b">>

StepsContent == <<"Books", "\n", "steps", ":", " ", "one", "\n", "more">>

PlainContent == <<"Books", "\n", "plain", " ", "line">>

FirstContents ==
    { <<"pencil", ",", " ", "paper">>, <<>>, LongContent, StepsContent, PlainContent }

SecondContents == { <<"read", " ", "ch", ".", "2">>, <<>> }

\* headings, each with the alternation of the handlers it belongs to
Headings ==
    { [label |-> <<"Resource", "s">>, names |-> ResourceNames],
      [label |-> <<"Materials">>, names |-> ResourceNames],
      [label |-> <<"Homework">>, names |-> HomeworkNames],
      [label |-> <<"Assignment">>, names |-> HomeworkNames],
      [label |-> <<"Conclusion">>, names |-> ConclusionNames],
      [label |-> <<"Note", "s">>, names |-> NoteNames] }

Alternations == {ResourceNames, HomeworkNames, ConclusionNames, NoteNames}

\* "<label>: <content>"
Section(s) == s.label \o <<":", " ">> \o s.content

\* the texts of two consecutive labeled sections, as their two parts
TwoSections ==
    { << [label |-> h1.label, names |-> h1.names, content |-> c1],
         [label |-> h2.label, names |-> h2.names, content |-> c2] >> :
        <<h1, h2, c1, c2>> \in
            { q \in Headings \X Headings \X FirstContents \X SecondContents :
                q[1].names # q[2].names } }

TextOf(parts) == Join([i \in 1..Len(parts) |-> Section(parts[i])], <<"\n">>)

\* extract_section(text, names) on a text of two sections, on a text without
\* any heading and on the empty text
CallExtractSection ==
    /\ call = NoCall
    /\ \E parts \in TwoSections \cup { <<>>, << [label |-> <<"Today">>, names |-> <<>>,
                                                 content |-> <<"we", " ", "read">>] >> } :
          \E names \in Alternations :
              call' = [fn |-> "extract_section", text |-> TextOf(parts), names |-> names,
                       parts |-> parts, sumy |-> FALSE,
                       result |-> extract_section(TextOf(parts), names)]
    /\ UNCHANGED <<bvars, cvars, thread, began>>

\* a text of six sentences with a keyword, one without any keyword
SixGoals ==
    <<"Students", " ", "will", " ", "learn", " ", "one", ".", " ",
      "Students", " ", "will", " ", "learn", " ", "two", ".", " ",
      "Students", " ", "will", " ", "learn", " ", "three", ".", " ",
      "Students", " ", "will", " ", "learn", " ", "four", ".", " ",
      "Students", " ", "will", " ", "learn", " ", "five", ".", " ",
      "Students", " ", "will", " ", "learn", " ", "six", ".">>

NoGoals ==
    <<"Plants", " ", "make", " ", "food", ".", " ", "Leaves", " ", "are", " ", "green", ".",
      "\n", "Roots", " ", "take", " ", "water", ".">>

ObjectiveTexts ==
    { <<>>, <<" ">>, <<" ", "\n", " ">>, <<"Plants">>, Snippet, NoGoals, LessonPage, SixGoals,
      PlantPartsSecond }

\* extract_objectives_from_text(text), the summarizer working or raising
CallObjectives ==
    /\ call = NoCall
    /\ \E text \in ObjectiveTexts :
          \E sumy \in BOOLEAN :
              call' = [fn |-> "extract_objectives_from_text", text |-> text, names |-> <<>>,
                       parts |-> <<>>, sumy |-> sumy,
                       result |-> extract_objectives_from_text(text, sumy)]
    /\ UNCHANGED <<bvars, cvars, thread, began>>

HelperInit == InitWebhook /\ traffic = "none" /\ BinderIdle /\ call = NoCall /\ RaceIdle

HelperNext == CallExtractSection \/ CallObjectives

HelperSpec == HelperInit /\ [][HelperNext]_vars

\* the content the sections of the call hold under an alternation: that of
\* the first section whose heading belongs to it, "" when there is none
RECURSIVE ContentUnder(_, _, _)
ContentUnder(parts, names, i) ==
    IF i > Len(parts) THEN <<>>
    ELSE IF parts[i].names = names THEN parts[i].content
    ELSE ContentUnder(parts, names, i + 1)

\* C13: on a text of two consecutive labeled sections extract_section called
\* with the alternation of a section returns the content of that section
\* only, trimmed and at most 800 characters long; it returns "" when no
\* heading of the alternation occurs and when the text is empty.
C13_SectionOfItsHeading ==
    call.fn = "extract_section" =>
        /\ call.result = Strip(call.result)
        /\ TextLen(call.result) <= 800
        /\ IsPrefix(call.result, Strip(ContentUnder(call.parts, call.names, 1)))
        /\ TextLen(Strip(ContentUnder(call.parts, call.names, 1))) <= 800
              => call.result = Strip(ContentUnder(call.parts, call.names, 1))

\* the first line of a text
FirstLine(t) == Split(t, "\n")[1]

\* C14: for a pasted text of 500 characters that contains the sentence
\* "Students will be able to identify plant parts." the first bullet of the
\* objectives field is that sentence, trimmed, after the bullet marker (the
\* full stop, which the split on "." removes, is not asked for).
C14_FirstObjective ==
    (/\ run.path \in {"text", "confirm"}
     /\ TextLen(run.text) = 500
     /\ Contains(run.text, PlantParts)) =>
        FirstLine(run.mapping.objectives) \in
            { <<BULLET, " ">> \o PlantParts,
              <<BULLET, " ">> \o SubSeq(PlantParts, 1, Len(PlantParts) - 1) }

\* the period-delimited sentences of a text that hold a keyword
KeywordSentences(text) == SelectSeq(NonEmpty(MapStrip(Split(text, "."))), HasKeyword)

\* the lines of the 5-sentence summary of the call's text
SummaryLines == NonEmpty(MapStrip(Split(summarize_text(call.text, 5, call.sumy), "\n")))

\* C15: extract_objectives_from_text returns a non-empty bulleted string for
\* every input: the sentences with a keyword, in text order, one bullet each,
\* at most 5; without any, one bullet per sentence of the 5-sentence summary;
\* the placeholder bullet only when that summary is empty.
C15_ObjectivesBulleted ==
    call.fn = "extract_objectives_from_text" =>
        /\ call.result # <<>>
        /\ call.result[1] = BULLET
        /\ KeywordSentences(call.text) # <<>> =>
              call.result = Bullets(Take(KeywordSentences(call.text), 5))
        /\ (KeywordSentences(call.text) = <<>>
              /\ summarize_text(call.text, 5, call.sumy) # <<>>) =>
              call.result = Bullets(SummaryLines)
        /\ (KeywordSentences(call.text) = <<>>
              /\ summarize_text(call.text, 5, call.sumy) = <<>>) =>
              call.result = Placeholder

\* C16: for a template with the body paragraph "Title: [TBD]" and a
\* non-empty lesson_title v, the paragraph of the saved document reads
\* "Title: v", whatever the other paragraphs and field values are.
C16_BracketFallback ==
    (bpc = "returned" /\ bound # NoDoc /\ mapping.lesson_title # <<>>) =>
        \A i \in 1..Len(template.paragraphs) :
            template.paragraphs[i] = <<"Title", ":", " ", "[", "TBD", "]">> =>
                bound.paragraphs[i] = <<"Title", ":", " ">> \o mapping.lesson_title

\* what source i of the search of the last run contributes: nothing when its
\* fetch failed, else its page, cut
Contribution(i) ==
    IF run.hits[i].fetched THEN Truncate(run.hits[i].page, 20000) ELSE <<>>

\* the non-empty contributions of sources i..n, in rank order, joined by
\* blank lines
RECURSIVE JoinedFrom(_, _)
JoinedFrom(i, n) ==
    IF i > n THEN <<>>
    ELSE IF Contribution(i) = <<>> THEN JoinedFrom(i + 1, n)
    ELSE IF JoinedFrom(i + 1, n) = <<>> THEN Contribution(i)
    ELSE Contribution(i) \o <<"\n", "\n">> \o JoinedFrom(i + 1, n)

\* the snippets of all hits, joined by blanks
RECURSIVE SnippetsFrom(_)
SnippetsFrom(i) ==
    IF i > Len(run.hits) THEN <<>>
    ELSE IF i = Len(run.hits) THEN run.hits[i].body
    ELSE run.hits[i].body \o <<" ">> \o SnippetsFrom(i + 1)

FirstThree == IF Len(run.hits) < 3 THEN Len(run.hits) ELSE 3

C18_CollectedTitleBound ==
    (/\ run.path \in {"pdf", "text", "confirm"}
     /\ "chapter" \in DOMAIN SESS[last.chat].tmp) =>
        run.mapping.lesson_title = SESS[last.chat].tmp.chapter

\* the update of the step is a photo: a message with photo sizes and, as
\* Telegram sends it, neither text nor document
IsPhotoEvent ==
    /\ IsEvent
    /\ "photo" \in DOMAIN last'.msg
    /\ "text" \notin DOMAIN last'.msg
    /\ "document" \notin DOMAIN last'.msg

\* C19: a photo, in every session state, is answered with the OCR notice to
\* the sender and nothing else: no pipeline run, no document, the sender's
\* state, tmp and template_path as they were, every other session and the
\* runtime target untouched.
C19_PhotoFrame ==
    [][IsPhotoEvent =>
          /\ out' = <<[method |-> "sendMessage", chat_id |-> IdText(last'.chat),
                       text |-> PhotoNotice]>>
          /\ run'.path = "none"
          /\ run'.outcome = "none"
          /\ SESS'[last'.chat] = Session(last'.chat)
          /\ \A c \in DOMAIN SESS : SESS'[c] = SESS[c]
          /\ RUNTIME_TARGET' = RUNTIME_TARGET]_vars

\* a photo arrived in the middle of the search flow, grade and subject
\* collected and the chapter awaited, and was answered with the notice
C19_Witness ==
    /\ "photo" \in DOMAIN last.msg
    /\ SESS[last.chat].state = "await_chapter"
    /\ "subject" \in DOMAIN SESS[last.chat].tmp
    /\ run.path = "none"
    /\ Len(out) = 1
    /\ out[1].text = PhotoNotice

-----------------------------------------------------------------------------
(* Two updates of one chat handled at the same time.  The development     *)
(* server of src/app.py:720 serves each request on a thread of its own and *)
(* SESS is a plain dict (src/app.py:45): a handler is a sequence of steps, *)
(* each one read or write of the session, and the steps of two handlers    *)
(* interleave.  The world of a step is the session of the chat and the     *)
(* Telegram calls made so far; a thread holds the handler's position and   *)
(* local variables.  The template is present and the binder and the sends  *)
(* go through; the updates are those of RaceInbox, none of them a menu     *)
(* choice or a command other than /admin and /hi_rise.                     *)

Waiting(t) == t.pc = "waiting"

Done(t) == t.pc = "done"

Running(t) == ~Waiting(t) /\ ~Done(t)

\* a handler waits while another one is between its first step and its
\* return
MayRunAlone(h) ==
    \A g \in Threads \ {h} : ~Running(thread[g]) \/ thread[g].pc = "at_365"

\* src/app.py:45, 352-716: nothing a handler waits for: no lock is taken
\* around the reads and writes of SESS
MayRun(h) == TRUE

At(t, pc) == [t EXCEPT !.pc = pc]

\* send_message(chat_id, text) added to the calls of the world
Say(w, c, text) == [w EXCEPT !.out = Append(@, send_message(IdText(c), text))]

\* SESS[chat_id]["state"] = s
SetState(w, s) == [w EXCEPT !.sess.state = s]

\* sendDocument and the notice after it (src/app.py:321-327)
Deliver(w, c) ==
    [w EXCEPT !.out = @ \o <<sendDocument(IdText(c)),
                             send_message(IdText(c), <<"Lesson plan generated">>)>>]

FollowUpStates == {"admin_send_message", "admin_set_target", "admin_set_template"}

\* the branch of src/app.py:584-713 for the state read at line 582
FlowBranch(state, txt) ==
    IF state = "confirm_from_text"
    THEN (IF LowerText(txt) \in {<<"yes">>, <<"y">>} THEN "at_586" ELSE "at_614")
    ELSE IF state = "await_text" THEN "at_621"
    ELSE IF state = "await_grade" THEN "at_651"
    ELSE IF state = "await_subject" THEN "at_657"
    ELSE IF state = "await_chapter" THEN "at_663"
    ELSE "at_713"

\* the text extract_text_from_pdf reads from the upload of a race
RacePdfText == <<"Students", " ", "will", " ", "learn", ".">>

\* one step of the handler of chat c: the world and the thread after it.
\* A position is named after the line of src/app.py it is about to run.
HandlerStep(c, w, t) ==
    LET txt == Text(t.msg)
        go(pc) == [w |-> w, t |-> At(t, pc)]
        end(v) == [w |-> v, t |-> At(t, "done")]
    IN
    CASE t.pc = "at_365" ->
           IF "text" \notin DOMAIN t.msg THEN go("at_510")
           ELSE IF ~StartsWith(txt, <<"/admin">>) THEN go("at_417")
           ELSE IF ~is_admin(c)
           THEN end(Say(w, c, <<"Unauthorized. Only admin can use this command.">>))
           ELSE [w |-> Say(w, c, <<"Admin menu - choose an action:">>), t |-> At(t, "at_375")]
      [] t.pc = "at_375" -> end(SetState(w, "admin_menu"))
      [] t.pc = "at_417" ->
           IF w.sess.state = "admin_menu" /\ is_admin(c)
           THEN go("at_419") ELSE go("at_445")
      [] t.pc = "at_419" ->
           end(SetState(Say(w, c, AdminChoice(txt).text), AdminChoice(txt).state))
      [] t.pc = "at_445" ->
           IF is_admin(c) /\ w.sess.state \in FollowUpStates
           THEN [w |-> w, t |-> [t EXCEPT !.pc = "at_447", !.state = w.sess.state]]
           ELSE go("at_481")
      \* the follow-ups, all ending in admin_menu; no race starts in their states
      [] t.pc = "at_447" -> end(SetState(w, "admin_menu"))
      [] t.pc = "at_481" ->
           IF LowerText(txt) = <<"/hi_rise">>
           THEN [w |-> Say(w, c, <<"Hi! For which lesson shall we create a lesson plan today?">>),
                 t |-> At(t, "at_484")]
           ELSE go("at_489")
      [] t.pc = "at_484" -> [w |-> SetState(w, "idle"), t |-> At(t, "at_485")]
      [] t.pc = "at_485" -> end([w EXCEPT !.sess.tmp = <<>>])
      [] t.pc = "at_489" ->
           IF w.sess.state = "idle" THEN go("at_490") ELSE go("at_580")
      [] t.pc = "at_490" ->
           IF txt = UploadPDF
           THEN end(Say(SetState(w, "await_pdf"), c,
                        <<"Please upload the lesson PDF as a document now">>))
           ELSE IF txt = PasteText
           THEN end(Say(SetState(w, "await_text"), c, <<"Please paste the chapter text now.">>))
           ELSE IF txt = AskBot
           THEN end(Say(SetState(w, "await_grade"), c, <<"Okay - which Grade? (e.g., Grade 6)">>))
           ELSE IF TextLen(txt) > PasteThreshold
           THEN [w |-> SetState(Say(w, c,
                          <<"I detected pasted text - reply 'Yes' to confirm generation.">>),
                          "confirm_from_text"),
                 t |-> At(t, "at_506")]
           ELSE go("at_580")
      [] t.pc = "at_506" ->
           end([w EXCEPT !.sess.tmp = Put(@, "text_candidate", txt)])
      [] t.pc = "at_510" ->
           IF "document" \notin DOMAIN t.msg
           THEN (IF "photo" \in DOMAIN t.msg THEN end(Say(w, c, PhotoNotice)) ELSE end(w))
           ELSE IF EndsWith(LowerText(FileName(t.msg)), <<".docx">>)
           THEN [w |-> Say([w EXCEPT !.sess.template_path = LocalPath(FileName(t.msg))], c,
                           <<"Template uploaded and saved for your session.">>),
                 t |-> At(t, "at_527")]
           ELSE go("at_531")
      [] t.pc = "at_527" -> end(SetState(w, "idle"))
      [] t.pc = "at_531" ->
           IF EndsWith(LowerText(FileName(t.msg)), <<".pdf">>) /\ w.sess.state = "await_pdf"
           THEN [w |-> Say(w, c, <<"PDF received. Generating lesson plan...">>),
                 t |-> [t EXCEPT !.pc = "at_541", !.text = RacePdfText]]
           ELSE [w |-> Say(w, c, <<"Document received.">>), t |-> At(t, "at_571")]
      [] t.pc = "at_541" ->
           [w |-> w, t |-> [t EXCEPT !.pc = "at_566", !.tmp = w.sess.tmp]]
      [] t.pc = "at_566" -> [w |-> Deliver(w, c), t |-> At(t, "at_567")]
      [] t.pc = "at_567" -> end(SetState(w, "idle"))
      [] t.pc = "at_571" -> end(SetState(w, "idle"))
      [] t.pc = "at_580" ->
           [w |-> w,
            t |-> [t EXCEPT !.pc = FlowBranch(w.sess.state, txt), !.state = w.sess.state]]
      [] t.pc = "at_586" ->
           [w |-> w,
            t |-> [t EXCEPT !.pc = "at_587",
                            !.text = Get(w.sess.tmp, "text_candidate", <<>>)]]
      [] t.pc = "at_587" ->
           [w |-> Say(SetState(w, "idle"), c, <<"Generating lesson plan from pasted text...">>),
            t |-> At(t, "at_598")]
      [] t.pc = "at_598" ->
           [w |-> w, t |-> [t EXCEPT !.pc = "at_612", !.tmp = w.sess.tmp]]
      [] t.pc = "at_612" -> end(Deliver(w, c))
      [] t.pc = "at_614" ->
           end(Say(SetState(w, "idle"), c, <<"Cancelled. Send /hi_rise to begin again.">>))
      [] t.pc = "at_621" ->
           [w |-> Say(SetState(w, "idle"), c, <<"Generating lesson plan from pasted text...">>),
            t |-> [t EXCEPT !.pc = "at_598", !.text = txt]]
      [] t.pc = "at_651" ->
           [w |-> [w EXCEPT !.sess.tmp = [grade |-> txt]], t |-> At(t, "at_652")]
      [] t.pc = "at_652" ->
           end(Say(SetState(w, "await_subject"), c, <<"Which Subject?">>))
      [] t.pc = "at_657" ->
           [w |-> [w EXCEPT !.sess.tmp = Put(@, "subject", txt)], t |-> At(t, "at_658")]
      [] t.pc = "at_658" ->
           end(Say(SetState(w, "await_chapter"), c,
                   <<"Which Chapter name or number should I search for?">>))
      [] t.pc = "at_663" ->
           [w |-> [w EXCEPT !.sess.tmp = Put(@, "chapter", txt)], t |-> At(t, "at_664")]
      [] t.pc = "at_664" ->
           [w |-> Say(w, c, SearchingFor(w.sess.tmp)),
            t |-> [t EXCEPT !.pc = "at_669", !.tmp = w.sess.tmp, !.text = txt]]
      [] t.pc = "at_669" -> [w |-> SetState(w, "idle"), t |-> At(t, "at_709")]
      [] t.pc = "at_709" -> end(Deliver(w, c))
      [] t.pc = "at_713" ->
           end(Say(w, c, <<"Send /hi_rise to start the lesson-plan flow">>))
      [] OTHER -> [w |-> w, t |-> t]

\* the session a race starts from, of the admin and of another chat
RaceStarts ==
    { [chat |-> ADMIN_ID + 1, sess |-> [state |-> s, tmp |-> <<>>, template_path |-> None]] :
         s \in {"idle", "await_grade", "await_pdf"} }
    \cup { [chat |-> ADMIN_ID + 1,
            sess |-> [state |-> "confirm_from_text", tmp |-> [text_candidate |-> PastedText],
                      template_path |-> None]],
           [chat |-> ADMIN_ID,
            sess |-> [state |-> "await_pdf", tmp |-> <<>>, template_path |-> None]] }

\* the updates of a race
RaceInbox(c) ==
    IF is_admin(c)
    THEN {TextMessage(<<"/admin">>), TextMessage(<<"Grade", " ", "6">>),
          DocumentMessage(PdfName)}
    ELSE {TextMessage(t) : t \in {<<"Grade", " ", "6">>, <<"Art">>, <<"yes">>, AskBot,
                                  UploadPDF, <<"/hi_rise">>}}
         \cup {DocumentMessage(PdfName)}

RaceInit ==
    /\ \E s \in RaceStarts :
          /\ SESS = (s.chat :> s.sess)
          /\ began = [chat |-> s.chat, sess |-> s.sess, overlap |-> FALSE]
    /\ thread = [h \in Threads |-> NoThread]
    /\ RUNTIME_TARGET = <<>>
    /\ last = [chat |-> 0, msg |-> [none |-> TRUE]]
    /\ out = <<>>
    /\ run = NoRun
    /\ traffic = "race"
    /\ BinderIdle
    /\ call = NoCall

\* src/app.py:352-362: the request of an update reaches its thread
Receives(h, msg) ==
    /\ Waiting(thread[h])
    /\ thread' = [thread EXCEPT ![h] = [NoThread EXCEPT !.pc = "at_365", !.msg = msg]]
    /\ began' = [began EXCEPT
                    !.overlap = @ \/ \E g \in Threads \ {h} : Running(thread[g])]
    /\ UNCHANGED <<bvars, cvars, call>>

\* the thread of a handler runs its next step
Steps(h) ==
    /\ Running(thread[h])
    /\ MayRun(h)
    /\ \E r \in {HandlerStep(began.chat, [sess |-> SESS[began.chat], out |-> out],
                             thread[h])} :
          /\ SESS' = Put(SESS, began.chat, r.w.sess)
          /\ out' = r.w.out
          /\ thread' = [thread EXCEPT ![h] = r.t]
    /\ UNCHANGED <<RUNTIME_TARGET, last, run, traffic, began, bvars, call>>

RaceNext ==
    \/ \E h \in Threads : \E msg \in RaceInbox(began.chat) : Receives(h, msg)
    \/ \E h \in Threads : Steps(h)

RaceSpec == RaceInit /\ [][RaceNext]_vars

\* a handler run from its first step to its return with nothing in between
RECURSIVE RunAlone(_, _, _)
RunAlone(c, w, t) ==
    IF Done(t) THEN w
    ELSE RunAlone(c, HandlerStep(c, w, t).w, HandlerStep(c, w, t).t)

\* the world after the update of thread i and then that of thread j, one
\* after the other, from the session the race began with
InOrder(i, j) ==
    RunAlone(began.chat,
             RunAlone(began.chat, [sess |-> began.sess, out |-> <<>>],
                      [NoThread EXCEPT !.pc = "at_365", !.msg = thread[i].msg]),
             [NoThread EXCEPT !.pc = "at_365", !.msg = thread[j].msg])

\* the number of documents among the calls
Documents(o) == Cardinality({i \in 1..Len(o) : o[i].method = "sendDocument"})

\* what a chat is left with: its session and the documents it was sent
Outcome(w) == [sess |-> w.sess, documents |-> Documents(w.out)]

SequentialSessions == {InOrder(1, 2).sess, InOrder(2, 1).sess}

SequentialOutcomes == {Outcome(InOrder(1, 2)), Outcome(InOrder(2, 1))}

AllDone == \A h \in Threads : Done(thread[h])

\* both handlers read await_grade at line 582 and stored their text as grade
BothGrades == AllDone /\ \A h \in Threads : thread[h].state = "await_grade"

\* the PDF handler ran the pipeline and its last write, idle, came after the
\* admin_menu that the handler of /admin had written meanwhile
IdleOverMenu ==
    /\ AllDone
    /\ is_admin(began.chat)
    /\ \E h \in Threads :
          /\ "document" \in DOMAIN thread[h].msg
          /\ thread[h].text = RacePdfText
    /\ \E g \in Threads :
          /\ "text" \in DOMAIN thread[g].msg
          /\ Text(thread[g].msg) = <<"/admin">>
    /\ SESS[began.chat].state = "idle"

\* both handlers read confirm_from_text, both updates said yes, and each one
\* sent a document
BothConfirmed ==
    /\ AllDone
    /\ \A h \in Threads :
          /\ thread[h].state = "confirm_from_text"
          /\ thread[h].text = PastedText
    /\ Documents(out) = 2

-----------------------------------------------------------------------------
(* The order of the label pass, checked under OrderSpec: the binder on      *)
(* templates that hold several label variants of the lesson title.          *)

\* paragraphs that hold the second, third and fourth variant of lesson_title
OrderPool ==
    { <<"Lesson", " ", "Plan", ":">>,
      <<"Lesson", " ", "Plan", ":", " ", "[", "TBD", "]">>,
      <<"Lesson", " ", "Title", ":">>,
      <<"Chapter", " ", "Name", ":", " ", "[", "TBD", "]">> }

OrderTemplates ==
    UNION {UNION {{MakeDoc(b, c, h) :
                      h \in SeqUpTo(OrderPool, MaxPars - (Len(b) + Len(c)))} :
                  c \in SeqUpTo(OrderPool, MaxPars - Len(b))} :
           b \in SeqUpTo(OrderPool, MaxPars)}

\* mappings as the handlers build them, the title plain or with a backslash
OrderMappings ==
    {[lesson_title |-> t, grade |-> <<>>, subject |-> <<>>, teacher_name |-> <<>>,
      date |-> <<>>, objectives |-> <<BULLET, " ", "Learn">>, resources |-> <<>>,
      outline |-> <<"Plants">>, assessment |-> <<"Q1">>, homework |-> <<>>,
      conclusion |-> <<>>, note |-> <<>>] :
        t \in {<<"Photosynthesis">>, <<"Art", "\\", "Design">>}}

InitOrder ==
    /\ bpc = "start"
    /\ template \in OrderTemplates
    /\ mapping \in OrderMappings
    /\ doc = NoDoc
    /\ key_idx = 1
    /\ consumed = {}
    /\ written = <<>>
    /\ bound = NoDoc
    /\ bout = <<>>
    /\ InitWebhook
    /\ traffic = "none"
    /\ call = NoCall
    /\ RaceIdle

OrderSpec == InitOrder /\ [][NextBind]_vars

\* paragraph i of the document, in search order, holds variant j of the key
HoldsVariant(d, i, key, j) ==
    Contains(LowerText(AllPars(d)[i]), label_variants[key][j])

\* the variants of the key that some paragraph of the document holds
VariantsHeld(d, key) ==
    {j \in 1..Len(label_variants[key]) :
        \E i \in 1..Len(AllPars(d)) : HoldsVariant(d, i, key, j)}

\* the earliest of them
EarliestVariant(d, key) ==
    CHOOSE j \in VariantsHeld(d, key) : \A k \in VariantsHeld(d, key) : j <= k

\* the first paragraph in search order that holds variant j
FirstMatch(d, key, j) ==
    CHOOSE i \in 1..Len(AllPars(d)) :
        /\ HoldsVariant(d, i, key, j)
        /\ \A k \in 1..(i - 1) : ~HoldsVariant(d, k, key, j)

\* C21: an iteration of the label pass that returns, for a field one of whose
\* variants some paragraph holds, rewrites the first paragraph in search order
\* (body, tables, headers and footers) that holds the earliest such variant,
\* and changes no paragraph that does not hold that variant: no later variant
\* is tried after a match.
C21_SearchOrder ==
    [][(/\ bpc = "label"
        /\ bpc' # "raised"
        /\ VariantsHeld(doc, Keys[key_idx]) # {})
          => /\ AllPars(doc')[FirstMatch(doc, Keys[key_idx],
                                  EarliestVariant(doc, Keys[key_idx]))]
                  = _replace_in_paragraph_by_label(
                        AllPars(doc)[FirstMatch(doc, Keys[key_idx],
                                         EarliestVariant(doc, Keys[key_idx]))],
                        label_variants[Keys[key_idx]][EarliestVariant(doc, Keys[key_idx])],
                        mapping[Keys[key_idx]]).text
             /\ \A i \in Changed(doc, doc') :
                   HoldsVariant(doc, i, Keys[key_idx],
                                EarliestVariant(doc, Keys[key_idx]))]_vars

\* the last position of the line that position i belongs to
RECURSIVE LineEnd(_, _)
LineEnd(t, i) ==
    IF i >= Len(t) \/ t[i + 1] = "\n" THEN i ELSE LineEnd(t, i + 1)

\* the line after the newline at q looks like a heading: it begins with a
\* capital letter, is short, and ends in a colon
LooksLikeHeading(t, q) ==
    /\ q < Len(t)
    /\ t[q] = "\n"
    /\ t[q + 1] \in DOMAIN LowerTable
    /\ t[LineEnd(t, q + 1)] = ":"
    /\ TextLen(SubSeq(t, q + 1, LineEnd(t, q + 1))) <= 82

\* where content that starts at q ends by that rule
RECURSIVE EndByRule(_, _)
EndByRule(t, q) ==
    IF q > Len(t) THEN Len(t)
    ELSE IF LooksLikeHeading(t, q) THEN q - 1
    ELSE EndByRule(t, q + 1)

\* C22: the content extract_section returns runs from after the heading it
\* found to the next line that looks like a heading (capital first letter,
\* short, ending in a colon) or to the end of the text: a line that begins
\* with a small letter, or has a colon in its middle, does not cut it.
C22_ContentEndsAtHeading ==
    (/\ call.fn = "extract_section"
     /\ SearchFrom(call.text, call.names, 1) # 0) =>
        call.result =
            Truncate(Strip(SubSeq(call.text, SearchFrom(call.text, call.names, 1),
                                  EndByRule(call.text,
                                            SearchFrom(call.text, call.names, 1)))),
                     800)

-----------------------------------------------------------------------------
(* More claims on the webhook, checked under Spec *)

\* C23: from admin_send_message, admin_set_target and admin_set_template the
\* next text of the admin brings the session back to admin_menu, whatever the
\* text is and whether the action succeeds or not.
C23_FollowUpReturnsToMenu ==
    [][(/\ IsTextEvent
        /\ last'.chat = ADMIN_ID
        /\ StateBefore \in FollowUpStates) => StateAfter = "admin_menu"]_vars

\* the update of the step is a document: a message with a document and, as
\* Telegram sends it, no text
IsDocumentEvent ==
    /\ IsEvent
    /\ "document" \in DOMAIN last'.msg
    /\ "text" \notin DOMAIN last'.msg

\* the name of the document ends in the suffix, in any case
NamedLike(suffix) == EndsWith(LowerText(FileName(last'.msg)), suffix)

\* C24: the pipeline runs on a document only when it is a PDF received in
\* await_pdf.  A document received in any other state, a failed download and
\* a downloaded .docx in any state run no pipeline and leave the session
\* idle; a downloaded .docx also becomes the session's template_path, and
\* tmp is left as it was.
C24_DocumentHandling ==
    [][IsDocumentEvent =>
          /\ run'.path # "none" =>
                /\ StateBefore = "await_pdf"
                /\ NamedLike(<<".pdf">>)
                /\ run'.path = "pdf"
          /\ (\/ StateBefore # "await_pdf"
              \/ run'.outcome = "download failed"
              \/ NamedLike(<<".docx">>)) =>
                /\ run'.path = "none"
                /\ StateAfter = "idle"
          /\ (NamedLike(<<".docx">>) /\ run'.outcome # "download failed") =>
                /\ SESS'[last'.chat].template_path = LocalPath(FileName(last'.msg))
                /\ SESS'[last'.chat].tmp = Session(last'.chat).tmp]_vars

\* a .docx arrived in a session that held a pasted candidate: it is the
\* session's template, the session is idle, the candidate is kept and no
\* pipeline ran
C24_Witness ==
    /\ "document" \in DOMAIN last.msg
    /\ EndsWith(LowerText(FileName(last.msg)), <<".docx">>)
    /\ SESS[last.chat].template_path = LocalPath(FileName(last.msg))
    /\ SESS[last.chat].state = "idle"
    /\ "text_candidate" \in DOMAIN SESS[last.chat].tmp
    /\ run.path = "none"
    /\ run.outcome = "none"

\* the update of the step is the entry command: /hi_rise in any letter case,
\* blanks around it ignored
IsEntryCommand == IsTextEvent /\ LowerText(Strip(last'.msg.text)) = <<"/hi_rise">>

\* C25: /hi_rise received in a state that is not an admin state leaves the
\* session idle with an empty tmp and the template_path it had, and runs no
\* pipeline; a generation takes grade, subject and candidate from the tmp of
\* its own time, so nothing collected before the command reaches a later
\* document.
C25_EntryCommandResets ==
    [][/\ (IsEntryCommand /\ StateBefore \notin AdminStates) =>
             /\ StateAfter = "idle"
             /\ SESS'[last'.chat].tmp = <<>>
             /\ SESS'[last'.chat].template_path = Session(last'.chat).template_path
             /\ run'.path = "none"
       /\ (IsEvent /\ run'.path # "none") =>
             /\ run'.mapping.grade = Get(SESS'[last'.chat].tmp, "grade", <<>>)
             /\ run'.mapping.subject = Get(SESS'[last'.chat].tmp, "subject", <<>>)
             /\ run'.path = "confirm" =>
                   run'.text = Get(SESS'[last'.chat].tmp, "text_candidate", <<>>)]_vars

\* the command was handled in a session that had uploaded a template: the
\* session is idle, tmp is empty and the template is still the session's
C25_Witness ==
    /\ "text" \in DOMAIN last.msg
    /\ LowerText(Strip(last.msg.text)) = <<"/hi_rise">>
    /\ last.msg.text # <<"/hi_rise">>
    /\ SESS[last.chat].state = "idle"
    /\ SESS[last.chat].tmp = <<>>
    /\ SESS[last.chat].template_path = LocalPath(JunkName)

\* what tmp holds in each state that waits for the next answer
HeldIn(state) ==
    IF state = "await_subject" THEN {"grade"}
    ELSE IF state = "await_chapter" THEN {"grade", "subject"}
    ELSE IF state = "confirm_from_text" THEN {"text_candidate"}
    ELSE {}

\* the state a search state is entered from
EnteredFrom(state) ==
    IF state = "await_grade" THEN "idle"
    ELSE IF state = "await_subject" THEN "await_grade"
    ELSE "await_subject"

\* C26: after every update, a session in await_subject holds grade in tmp, one
\* in await_chapter grade and subject, one in confirm_from_text the
\* candidate; a search state is entered only by a text of the chat received
\* in the state before it (idle, await_grade, await_subject); the search runs
\* with the grade and subject tmp holds, and a confirmation runs the pipeline
\* on the candidate tmp holds.
C26_StateMetadataConsistent ==
    [][/\ \A c \in DOMAIN SESS' : HeldIn(SESS'[c].state) \subseteq DOMAIN SESS'[c].tmp
       /\ \A c \in DOMAIN SESS' :
             (/\ SESS'[c].state \in {"await_grade", "await_subject", "await_chapter"}
              /\ (c \in DOMAIN SESS => SESS[c].state # SESS'[c].state)) =>
                /\ IsTextEvent
                /\ last'.chat = c
                /\ StateBefore = EnteredFrom(SESS'[c].state)
       /\ (IsEvent /\ run'.path = "web") =>
             /\ StateBefore = "await_chapter"
             /\ {"grade", "subject"} \subseteq DOMAIN Session(last'.chat).tmp
             /\ run'.mapping.grade = Session(last'.chat).tmp.grade
             /\ run'.mapping.subject = Session(last'.chat).tmp.subject
       /\ (IsEvent /\ run'.path = "confirm") =>
             /\ "text_candidate" \in DOMAIN Session(last'.chat).tmp
             /\ run'.text = Session(last'.chat).tmp.text_candidate]_vars

\* the search flow has taken the grade and the subject, one text each, and
\* waits for the chapter
C26_Witness ==
    /\ "text" \in DOMAIN last.msg
    /\ SESS[last.chat].state = "await_chapter"
    /\ SESS[last.chat].tmp.subject = Strip(last.msg.text)
    /\ "grade" \in DOMAIN SESS[last.chat].tmp

\* the update of the step carries a text, a document or a photo
IsContentEvent ==
    /\ IsEvent
    /\ \/ "text" \in DOMAIN last'.msg
       \/ "document" \in DOMAIN last'.msg
       \/ "photo" \in DOMAIN last'.msg

\* C27: the handler of every update that carries a text, a document or a
\* photo calls sendMessage for the sender's chat at least once, in every
\* state and for every text.
C27_EveryEventAnswered ==
    [][IsContentEvent =>
          \E i \in 1..Len(out') :
              /\ out'[i].method = "sendMessage"
              /\ out'[i].chat_id = IdText(last'.chat)]_vars

\* a text that no block takes (a short text in await_pdf) was answered with
\* the help line
C27_Witness ==
    /\ "text" \in DOMAIN last.msg
    /\ SESS[last.chat].state = "await_pdf"
    /\ Strip(last.msg.text) # UploadPDF
    /\ out = <<send_message(IdText(last.chat),
                   <<"Send /hi_rise to start the lesson-plan flow">>)>>

====
